---- MODULE Spec2Model ----
(***************************************************************************)
(* Parallax operator (matanryngler/parallax): the ListJob and ListCronJob  *)
(* fan-out reconcilers, the ledger ConfigMap published for a ListSource,   *)
(* the watch mapping from ledger to ListCronJob, and the init-container    *)
(* script that selects an item by completion index.                        *)
(*                                                                         *)
(* A string is a sequence of one-character strings, so that strings.Split, *)
(* strings.Join, strings.TrimSpace, cut and sed are computed, not assumed. *)
(* The control plane is a set of objects per kind; an object is a record   *)
(* with a name; Create fails with AlreadyExists on a name that is taken.   *)
(***************************************************************************)
EXTENDS Integers, Sequences, FiniteSets, TLC

\* ---------------------------------------------------------------- bounds
MaxItems == 2          \* longest item list a user or a source supplies
MaxParallelism == 2    \* largest spec.parallelism
MaxTime == 1           \* the clock runs 0..MaxTime
MaxDeleteAfter == 0    \* largest spec.deleteAfter
MaxRV == 3             \* tracked resource versions run 1..MaxRV
MaxShimItems == 2      \* longest item list handed to the init script
MaxShimItemLen == 2    \* longest item (in characters) handed to the init script
MaxInterval == 2       \* longest poll interval of a ListSource

\* ------------------------------------------------------------ characters
Comma == ","
NL == "\n"
SP == " "
PlainChars == {"a", "b"}
ShimChars == {"a", "b", Comma, NL, SP}

\* -------------------------------------------------------------- strings
RECURSIVE SplitAcc(_, _, _, _)
SplitAcc(s, sep, cur, acc) ==
    IF s = <<>> THEN Append(acc, cur)
    ELSE IF Head(s) = sep THEN SplitAcc(Tail(s), sep, <<>>, Append(acc, cur))
    ELSE SplitAcc(Tail(s), sep, Append(cur, Head(s)), acc)

\* strings.Split(s, sep) for a one-character separator: Split("", sep) = [""]
Split(s, sep) == SplitAcc(s, sep, <<>>, <<>>)

RECURSIVE Join(_, _)
\* strings.Join(list, sep)
Join(list, sep) ==
    IF list = <<>> THEN <<>>
    ELSE IF Len(list) = 1 THEN list[1]
    ELSE list[1] \o <<sep>> \o Join(Tail(list), sep)

IsSpace(c) == c \in {SP, NL}

RECURSIVE TrimLeft(_)
TrimLeft(s) == IF s # <<>> /\ IsSpace(Head(s)) THEN TrimLeft(Tail(s)) ELSE s

RECURSIVE TrimRight(_)
TrimRight(s) ==
    IF s # <<>> /\ IsSpace(s[Len(s)]) THEN TrimRight(SubSeq(s, 1, Len(s) - 1)) ELSE s

\* strings.TrimSpace
TrimSpace(s) == TrimRight(TrimLeft(s))

\* the sequences over S of length 0..n
SeqsUpTo(S, n) == UNION {[1..k -> S] : k \in 0..n}

\* --------------------------------------------------------------- state
VARIABLES
    listJobs,      \* the ListJob objects stored in the namespace
    listCronJobs,  \* the ListCronJob objects stored in the namespace
    listSources,   \* the ListSource objects stored in the namespace
    configMaps,    \* the ConfigMaps of the namespace (ledgers and rendered lists)
    jobs,          \* the batch/v1 Jobs of the namespace
    cronJobs,      \* the batch/v1 CronJobs of the namespace
    now,           \* the wall clock
    queue,         \* ListCronJob requests enqueued by the ConfigMap watch
    last,          \* what the most recent reconcile pass did and returned
    nextRV,        \* the resource version the next ConfigMap write receives
    shim,          \* one run of the init container: its input and what it exported
    passes         \* the passes of concurrently running ListJob reconcilers

vars == <<listJobs, listCronJobs, listSources, configMaps, jobs, cronJobs,
          now, queue, last, nextRV, shim, passes>>

\* ---------------------------------------------------------------- names
LJName == <<"lj">>
LCJName == <<"lcj">>
SourceName == <<"src">>
NoRef == <<>>

\* fmt.Sprintf("%s-list", name)
ListName(n) == n \o <<"-list">>

\* --------------------------------------------------------- object store
Has(store, n) == \E o \in store : o.name = n
Obj(store, n) == CHOOSE o \in store : o.name = n
Without(store, n) == {o \in store : o.name # n}

\* r.Create: AlreadyExists when the name is taken, an error when the call
\* fails, otherwise the object is stored
CreateOutcome(store, obj, fail) ==
    IF fail THEN "error"
    ELSE IF Has(store, obj.name) THEN "AlreadyExists"
    ELSE "ok"

\* (mutant) a create of an existing name replaces the stored object
CreateStoreOverwrites(store, obj, fail) ==
    IF fail THEN store ELSE Without(store, obj.name) \cup {obj}

CreateStore(store, obj, fail) ==
    IF CreateOutcome(store, obj, fail) = "ok" THEN store \cup {obj} ELSE store

\* r.Delete: NotFound when no object has the name, an error when the call
\* fails, otherwise the object is removed
DeleteOutcome(store, n, fail) ==
    IF fail THEN "error"
    ELSE IF Has(store, n) THEN "ok"
    ELSE "NotFound"

DeleteStore(store, n, fail) == IF fail THEN store ELSE Without(store, n)

\* r.Update of the fetched object: NotFound when it is gone, a Conflict when
\* the stored object changed since it was fetched
UpdateOutcome(store, fetched) ==
    IF ~Has(store, fetched.name) THEN "NotFound"
    ELSE IF Obj(store, fetched.name) # fetched THEN "Conflict"
    ELSE "ok"

\* The resource version of a ConfigMap is tracked only where the program reads
\* it (the rendered list of a ListCronJob); elsewhere it is left abstract.
Untracked == 0

\* cm.Data[key]: a missing key reads as the empty string
DataGet(cm, key) == IF cm.key = key THEN cm.value ELSE <<>>

Owner(kind, n) == [kind |-> kind, name |-> n]

\* ------------------------------------------------------- pass results
NoPass == [ctrl |-> "none", name |-> <<>>, ops |-> <<>>, err |-> FALSE,
           requeue |-> FALSE, requeueAfter |-> <<>>]

Result(ctrl, n, ops, err, requeue, requeueAfter) ==
    [ctrl |-> ctrl, name |-> n, ops |-> ops, err |-> err,
     requeue |-> requeue, requeueAfter |-> requeueAfter]

Op(call, outcome) == <<call, outcome>>

Issued(l, call) == \E i \in 1..Len(l.ops) : l.ops[i][1] = call
Outcome(l, call, outcome) == \E i \in 1..Len(l.ops) : l.ops[i] = Op(call, outcome)

\* ------------------------------------------------------ ConfigMap watch
\* findObjectsForConfigMap: the ListCronJobs whose listSourceRef is the name
\* of the ConfigMap; none when the List call fails
FindObjectsForConfigMap(cmName, listFails) ==
    IF listFails THEN {}
    ELSE {lcj.name : lcj \in {l \in listCronJobs : l.listSourceRef = cmName}}

\* the names of the ConfigMaps that differ between two stores
Changed(cms1, cms2) == {o.name : o \in (cms1 \ cms2) \cup (cms2 \ cms1)}

\* the requests the ConfigMap watch adds for the events between two stores
Watch(cms1, cms2, listFails) ==
    UNION {FindObjectsForConfigMap(n, listFails) : n \in Changed(cms1, cms2)}

\* every ConfigMap event is mapped to requests, which join the queue; the
\* List call of the mapping may fail
Enqueue(q, cms2) ==
    \E listFails \in (IF Watch(configMaps, cms2, FALSE) = {} THEN {FALSE} ELSE BOOLEAN) :
        queue' = q \cup Watch(configMaps, cms2, listFails)

\* ------------------------------------------------- ListJob reconciler
\* the outcome of one pass: the stores it leaves and the result it returns
Pass(ljs, cms, js, res) ==
    [listJobs |-> ljs, configMaps |-> cms, jobs |-> js, last |-> res]

\* metadata.finalizers holds the finalizer of another controller
OtherFinalizers(o) == "otherFinalizers" \in DOMAIN o /\ o.otherFinalizers

\* the API server persists an updated ListJob; an object with a deletion
\* timestamp and no finalizer left is removed
PersistListJob(store, lj) ==
    IF lj.deleting /\ ~lj.finalizer /\ ~OtherFinalizers(lj) THEN Without(store, lj.name)
    ELSE Without(store, lj.name) \cup {lj}

\* the API server handles a delete of a ListJob: with a finalizer present it
\* only sets the deletion timestamp
MarkDeleted(store, n) ==
    IF ~Has(store, n) THEN store
    ELSE PersistListJob(store, [Obj(store, n) EXCEPT !.deleting = TRUE])

\* (mutant) the cleanup forgets the ConfigMap
LJCleanupSkipsConfigMap(lj, F) ==
    LET o1 == Op("delete-job", DeleteOutcome(jobs, lj.name, "delete-job" \in F))
        js == DeleteStore(jobs, lj.name, "delete-job" \in F)
        failed == "update" \in F
        o3 == Op("remove-finalizer", IF failed THEN "error" ELSE "ok")
        ljs == IF failed THEN listJobs
               ELSE PersistListJob(listJobs, [lj EXCEPT !.finalizer = FALSE])
    IN  Pass(ljs, configMaps, js,
             Result("ListJob", lj.name, <<o1, o3>>, failed, FALSE, <<>>))

\* (mutant) a failed delete ends the pass with its error
LJCleanupReturnsDeleteError(lj, F) ==
    LET o1 == Op("delete-job", DeleteOutcome(jobs, lj.name, "delete-job" \in F))
        js == DeleteStore(jobs, lj.name, "delete-job" \in F)
        o2 == Op("delete-cm", DeleteOutcome(configMaps, ListName(lj.name), "delete-cm" \in F))
        cms == DeleteStore(configMaps, ListName(lj.name), "delete-cm" \in F)
        failed == "update" \in F
        o3 == Op("remove-finalizer", IF failed THEN "error" ELSE "ok")
        ljs == IF failed THEN listJobs
               ELSE PersistListJob(listJobs, [lj EXCEPT !.finalizer = FALSE])
    IN  IF "delete-job" \in F
        THEN Pass(listJobs, configMaps, jobs,
                  Result("ListJob", lj.name, <<o1>>, TRUE, FALSE, <<>>))
        ELSE IF "delete-cm" \in F
        THEN Pass(listJobs, configMaps, js,
                  Result("ListJob", lj.name, <<o1, o2>>, TRUE, FALSE, <<>>))
        ELSE Pass(ljs, cms, js,
                  Result("ListJob", lj.name, <<o1, o2, o3>>, failed, FALSE, <<>>))

\* (mutant) the finalizer is removed from the fetched copy and the Update is
\* left out
LJCleanupWithoutUpdate(lj, F) ==
    LET o1 == Op("delete-job", DeleteOutcome(jobs, lj.name, "delete-job" \in F))
        js == DeleteStore(jobs, lj.name, "delete-job" \in F)
        o2 == Op("delete-cm", DeleteOutcome(configMaps, ListName(lj.name), "delete-cm" \in F))
        cms == DeleteStore(configMaps, ListName(lj.name), "delete-cm" \in F)
    IN  Pass(listJobs, cms, js,
             Result("ListJob", lj.name, <<o1, o2>>, FALSE, FALSE, <<>>))

\* !listJob.DeletionTimestamp.IsZero() && ContainsFinalizer: delete the Job and
\* the ConfigMap ignoring errors, remove the finalizer, Update
LJCleanup(lj, F) ==
    LET o1 == Op("delete-job", DeleteOutcome(jobs, lj.name, "delete-job" \in F))
        js == DeleteStore(jobs, lj.name, "delete-job" \in F)
        o2 == Op("delete-cm", DeleteOutcome(configMaps, ListName(lj.name), "delete-cm" \in F))
        cms == DeleteStore(configMaps, ListName(lj.name), "delete-cm" \in F)
        failed == "update" \in F
        o3 == Op("remove-finalizer", IF failed THEN "error" ELSE "ok")
        ljs == IF failed THEN listJobs
               ELSE PersistListJob(listJobs, [lj EXCEPT !.finalizer = FALSE])
    IN  Pass(ljs, cms, js,
             Result("ListJob", lj.name, <<o1, o2, o3>>, failed, FALSE, <<>>))

\* (mutant) the expiry is looked at only while there is no Job
ExpiredUnlessMaterialized(lj, t) ==
    lj.deleteAfter # <<>> /\ t > lj.created + lj.deleteAfter[1] /\ ~Has(jobs, lj.name)

\* (mutant) the comparison is reversed: expiry.After(now)
ExpiredReversed(lj, t) == lj.deleteAfter # <<>> /\ lj.created + lj.deleteAfter[1] > t

\* DeleteAfter != nil && metav1.Now().After(CreationTimestamp + DeleteAfter)
Expired(lj, t) == lj.deleteAfter # <<>> /\ t > lj.created + lj.deleteAfter[1]

\* r.Delete(ctx, &listJob)
LJExpire(lj, F) ==
    LET failed == "delete-self" \in F
        o1 == Op("delete-self", IF failed THEN "error" ELSE "ok")
        ljs == IF failed THEN listJobs ELSE MarkDeleted(listJobs, lj.name)
    IN  Pass(ljs, configMaps, jobs,
             Result("ListJob", lj.name, <<o1>>, failed, FALSE, <<>>))

\* (mutant) the ledger is read whenever a listSourceRef is given
LJReadsLedgerWhenReferenced(lj) == Len(lj.staticList) = 0 \/ lj.listSourceRef # NoRef

\* does the pass read the ledger? only with an empty staticList
LJReadsLedger(lj) == Len(lj.staticList) = 0

\* (mutant) the ledger is looked up where it is never found
LedgerOutcomeNeverFound(ref, F) ==
    IF "get-ledger" \in F THEN "error" ELSE "NotFound"

\* r.Get of the ledger ConfigMap
LedgerOutcome(ref, F) ==
    IF "get-ledger" \in F THEN "error"
    ELSE IF ref = NoRef \/ ~Has(configMaps, ref) THEN "NotFound"
    ELSE "ok"

\* list = strings.Split(cm.Data["items"], ",")
LJParseLedger(cm) == Split(DataGet(cm, "items"), Comma)

\* var cm corev1.ConfigMap as r.Get leaves it: the stored object, or the zero
\* value (no Data) when nothing was fetched
Fetched(cms, ref) ==
    IF ref # NoRef /\ Has(cms, ref) THEN Obj(cms, ref)
    ELSE [name |-> ref, key |-> "", value |-> <<>>, owner |-> Owner("", <<>>),
          rv |-> Untracked]

\* the list of a ListJob: the staticList when it is not empty, else the
\* ledger's items
LJList(lj) ==
    IF ~LJReadsLedger(lj) THEN lj.staticList
    ELSE LJParseLedger(Fetched(configMaps, lj.listSourceRef))

\* (mutant) a NotFound of the ledger lookup is ignored
LJLookupFailedIgnoresNotFound(outcome) == outcome = "error"

\* if err != nil { return ctrl.Result{}, err } after the ledger lookup
LJLookupFailed(outcome) == outcome # "ok"

\* strings.Join(list, ","), the content of items.txt
LJRender(list) == Join(list, Comma)

\* (mutant) the ConfigMap is created without an owner reference
LJConfigMapWithoutOwner(lj, list) ==
    [name |-> ListName(lj.name), key |-> "items.txt", value |-> LJRender(list),
     owner |-> Owner("", <<>>), rv |-> Untracked]

\* jobCm: Data["items.txt"] = strings.Join(list, ",")
LJConfigMap(lj, list) ==
    [name |-> ListName(lj.name), key |-> "items.txt", value |-> LJRender(list),
     owner |-> Owner("ListJob", lj.name), rv |-> Untracked]

\* (mutant) an empty envName is used as it is
EnvNameOfWithoutDefault(envName) == envName

\* envName, "ITEM" when empty
EnvNameOf(envName) == IF envName = "" THEN "ITEM" ELSE envName

\* (mutant) completions is taken from parallelism
LJJobCompletionsFromParallelism(lj, list) ==
    [name |-> lj.name, completions |-> lj.parallelism, parallelism |-> lj.parallelism,
     completionMode |-> "Indexed", envName |-> EnvNameOf(lj.envName),
     volume |-> ListName(lj.name), labels |-> {},
     owner |-> Owner("ListJob", lj.name)]

\* jobSpec and job
LJJob(lj, list) ==
    [name |-> lj.name, completions |-> Len(list), parallelism |-> lj.parallelism,
     completionMode |-> "Indexed", envName |-> EnvNameOf(lj.envName),
     volume |-> ListName(lj.name), labels |-> {},
     owner |-> Owner("ListJob", lj.name)]

\* (mutant) AlreadyExists is returned as an error too
CreateFailedStrict(outcome) == outcome # "ok"

\* a Create error is returned unless it is AlreadyExists
CreateFailed(outcome) == outcome = "error"

\* the pass of an active ListJob: resolve the list, create the ConfigMap,
\* create the Job
LJMaterialize(lj, F) ==
    LET lo == LedgerOutcome(lj.listSourceRef, F)
        pre == IF LJReadsLedger(lj) THEN <<Op("get-ledger", lo)>> ELSE <<>>
    IN  IF LJReadsLedger(lj) /\ LJLookupFailed(lo)
        THEN Pass(listJobs, configMaps, jobs,
                  Result("ListJob", lj.name, pre, TRUE, FALSE, <<>>))
        ELSE
        LET list == LJList(lj)
            jobCm == LJConfigMap(lj, list)
            co == CreateOutcome(configMaps, jobCm, "create-cm" \in F)
            cms == CreateStore(configMaps, jobCm, "create-cm" \in F)
            ops1 == Append(pre, Op("create-cm", co))
        IN  IF CreateFailed(co)
            THEN Pass(listJobs, cms, jobs,
                      Result("ListJob", lj.name, ops1, TRUE, FALSE, <<>>))
            ELSE
            LET job == LJJob(lj, list)
                jo == CreateOutcome(jobs, job, "create-job" \in F)
                js == CreateStore(jobs, job, "create-job" \in F)
                ops2 == Append(ops1, Op("create-job", jo))
            IN  IF CreateFailed(jo)
                THEN Pass(listJobs, cms, js,
                          Result("ListJob", lj.name, ops2, TRUE, FALSE, <<>>))
                ELSE Pass(listJobs, cms, js,
                          Result("ListJob", lj.name, ops2, FALSE, FALSE, lj.deleteAfter))

\* (mutant) the pass goes on to materialize after adding the finalizer
LJAddFinalizerFallsThrough(lj, F) ==
    LET failed == "update" \in F
        o1 == Op("add-finalizer", IF failed THEN "error" ELSE "ok")
        m == LJMaterialize([lj EXCEPT !.finalizer = TRUE], F)
    IN  IF failed
        THEN Pass(listJobs, configMaps, jobs,
                  Result("ListJob", lj.name, <<o1>>, TRUE, FALSE, <<>>))
        ELSE Pass(PersistListJob(listJobs, [lj EXCEPT !.finalizer = TRUE]),
                  m.configMaps, m.jobs,
                  Result("ListJob", lj.name, <<o1>> \o m.last.ops, m.last.err, TRUE, <<>>))

\* !ContainsFinalizer: AddFinalizer, Update, Requeue
LJAddFinalizer(lj, F) ==
    LET failed == "update" \in F
        o1 == Op("add-finalizer", IF failed THEN "error" ELSE "ok")
        ljs == IF failed THEN listJobs
               ELSE PersistListJob(listJobs, [lj EXCEPT !.finalizer = TRUE])
    IN  Pass(ljs, configMaps, jobs,
             Result("ListJob", lj.name, <<o1>>, failed, ~failed, <<>>))

\* (mutant) a deleting ListJob that lost the finalizer is treated as a live one
LJBranchIgnoresDeletionWithoutFinalizer(lj) ==
    IF lj.deleting /\ lj.finalizer THEN "cleanup"
    ELSE IF ~lj.finalizer /\ ~lj.deleting THEN "add-finalizer"
    ELSE IF Expired(lj, now) THEN "expire"
    ELSE "materialize"

\* which branch of Reconcile a fetched ListJob takes
LJBranch(lj) ==
    IF lj.deleting THEN (IF lj.finalizer THEN "cleanup" ELSE "gone")
    ELSE IF ~lj.finalizer THEN "add-finalizer"
    ELSE IF Expired(lj, now) THEN "expire"
    ELSE "materialize"

\* the control-plane calls a branch makes, each of which may fail
LJCalls(branch) ==
    CASE branch = "cleanup" -> {"delete-job", "delete-cm", "update"}
      [] branch = "add-finalizer" -> {"update"}
      [] branch = "expire" -> {"delete-self"}
      [] branch = "materialize" -> {"get-ledger", "create-cm", "create-job"}
      [] OTHER -> {}

\* the failure sets that lead to different passes: every call of a branch
\* returns at its first error, except the two deletes of the cleanup
Singletons(S) == {{}} \cup {{c} : c \in S}

LJFailures(branch) ==
    IF branch = "cleanup" THEN SUBSET LJCalls(branch) ELSE Singletons(LJCalls(branch))

\* creationTimestamp + deleteAfter is earlier than the time t
PastExpiry(lj, t) == lj.deleteAfter # <<>> /\ lj.created + lj.deleteAfter[1] < t

\* history: whether the ListJob was past its expiry when Reconcile first
\* fetched it ("none" until then)
FirstPass(lj) ==
    IF lj.firstPass # "none" THEN lj.firstPass
    ELSE IF PastExpiry(lj, now) THEN "expired"
    ELSE "fresh"

Recorded(ljs, n, v) ==
    {IF o.name = n THEN [o EXCEPT !.firstPass = v] ELSE o : o \in ljs}

\* Reconcile of a ListJob that r.Get found; F is the set of calls that fail
LJPass(lj, F) ==
    LET b == LJBranch(lj)
    IN  CASE b = "cleanup" -> LJCleanup(lj, F)
          [] b = "add-finalizer" -> LJAddFinalizer(lj, F)
          [] b = "expire" -> LJExpire(lj, F)
          [] b = "materialize" -> LJMaterialize(lj, F)
          [] OTHER -> Pass(listJobs, configMaps, jobs,
                           Result("ListJob", lj.name, <<>>, FALSE, FALSE, <<>>))

\* ListJobReconciler.Reconcile for the request n; the first r.Get may fail
ReconcileListJob(n) ==
    /\ Has(listJobs, n)
    /\ \/ /\ last' = Result("ListJob", n, <<Op("get", "error")>>, TRUE, FALSE, <<>>)
          /\ UNCHANGED <<listJobs, configMaps, jobs, queue>>
       \/ \E F \in LJFailures(LJBranch(Obj(listJobs, n))) :
            LET p == LJPass(Obj(listJobs, n), F)
            IN  /\ listJobs' = Recorded(p.listJobs, n, FirstPass(Obj(listJobs, n)))
                /\ configMaps' = p.configMaps
                /\ jobs' = p.jobs
                /\ last' = p.last
                /\ Enqueue(queue, p.configMaps)
    /\ UNCHANGED <<listCronJobs, listSources, cronJobs, now, nextRV, shim, passes>>

\* Reconcile for a request whose ListJob r.Get does not find: no-op
ReconcileListJobGone(n) ==
    /\ ~Has(listJobs, n)
    /\ last.ctrl # "ListJob" \/ last.ops # <<>> \/ last.err
    /\ last' = Result("ListJob", n, <<>>, FALSE, FALSE, <<>>)
    /\ UNCHANGED <<listJobs, listCronJobs, listSources, configMaps, jobs, cronJobs,
                   now, queue, nextRV, shim, passes>>

\* --------------------------------------------- ListCronJob reconciler
CronPass(lcjs, cms, cjs, rv, res) ==
    [listCronJobs |-> lcjs, configMaps |-> cms, cronJobs |-> cjs, nextRV |-> rv,
     last |-> res]

\* an object's ResourceVersion field as the program reads it: "" when unset
NoVersion == <<>>
Version(rv) == <<rv>>

\* (mutant) the finalizer is removed without deleting the CronJob
LCJCleanupSkipsCronJob(lcj, F) ==
    LET o2 == Op("delete-cm", DeleteOutcome(configMaps, ListName(lcj.name), "delete-cm" \in F))
        cms == DeleteStore(configMaps, ListName(lcj.name), "delete-cm" \in F)
        failed == "update" \in F
        o3 == Op("remove-finalizer", IF failed THEN "error" ELSE "ok")
        lcjs == IF failed THEN listCronJobs
                ELSE PersistListJob(listCronJobs, [lcj EXCEPT !.finalizer = FALSE])
    IN  CronPass(lcjs, cms, cronJobs, nextRV,
                 Result("ListCronJob", lcj.name, <<o2, o3>>, failed, FALSE, <<>>))

\* !DeletionTimestamp.IsZero() && ContainsFinalizer: delete the CronJob and the
\* ConfigMap ignoring errors, remove the finalizer, Update
LCJCleanup(lcj, F) ==
    LET o1 == Op("delete-cronjob", DeleteOutcome(cronJobs, lcj.name, "delete-cronjob" \in F))
        cjs == DeleteStore(cronJobs, lcj.name, "delete-cronjob" \in F)
        o2 == Op("delete-cm", DeleteOutcome(configMaps, ListName(lcj.name), "delete-cm" \in F))
        cms == DeleteStore(configMaps, ListName(lcj.name), "delete-cm" \in F)
        failed == "update" \in F
        o3 == Op("remove-finalizer", IF failed THEN "error" ELSE "ok")
        lcjs == IF failed THEN listCronJobs
                ELSE PersistListJob(listCronJobs, [lcj EXCEPT !.finalizer = FALSE])
    IN  CronPass(lcjs, cms, cjs, nextRV,
                 Result("ListCronJob", lcj.name, <<o1, o2, o3>>, failed, FALSE, <<>>))

\* (mutant) the finalizer is added to the fetched copy and never persisted
LCJAddFinalizerNotPersisted(lcj, F) ==
    LET failed == "update" \in F
        o1 == Op("add-finalizer", IF failed THEN "error" ELSE "ok")
    IN  CronPass(listCronJobs, configMaps, cronJobs, nextRV,
                 Result("ListCronJob", lcj.name, <<o1>>, failed, ~failed, <<>>))

\* !ContainsFinalizer: AddFinalizer, Update, Requeue
LCJAddFinalizer(lcj, F) ==
    LET failed == "update" \in F
        o1 == Op("add-finalizer", IF failed THEN "error" ELSE "ok")
        lcjs == IF failed THEN listCronJobs
                ELSE PersistListJob(listCronJobs, [lcj EXCEPT !.finalizer = TRUE])
    IN  CronPass(lcjs, configMaps, cronJobs, nextRV,
                 Result("ListCronJob", lcj.name, <<o1>>, failed, ~failed, <<>>))

\* where the list comes from: the staticList, the ledger, or nowhere
LCJSource(lcj) ==
    IF Len(lcj.staticList) > 0 THEN "static"
    ELSE IF lcj.listSourceRef # NoRef THEN "ledger"
    ELSE "none"

\* list = strings.Split(itemsStr, "\n"), each element TrimSpace'd
LCJParseLedger(itemsStr) ==
    LET parts == Split(itemsStr, NL)
    IN  [i \in 1..Len(parts) |-> TrimSpace(parts[i])]

\* strings.Join(list, "\n"), the content of the key items
LCJRender(list) == Join(list, NL)

\* jobCm: Data["items"] = strings.Join(list, "\n")
LCJConfigMap(lcj, list) ==
    [name |-> ListName(lcj.name), key |-> "items", value |-> LCJRender(list),
     owner |-> Owner("ListCronJob", lcj.name), rv |-> nextRV]

\* the CronJob built from the ListCronJob and the list
LCJCronJob(lcj, list) ==
    [name |-> lcj.name, schedule |-> lcj.schedule,
     concurrencyPolicy |-> lcj.concurrencyPolicy, suspend |-> lcj.suspend,
     successfulJobsHistoryLimit |-> lcj.successfulJobsHistoryLimit,
     failedJobsHistoryLimit |-> lcj.failedJobsHistoryLimit,
     completions |-> Len(list), parallelism |-> lcj.parallelism,
     completionMode |-> "Indexed", envName |-> EnvNameOf(lcj.envName),
     volume |-> ListName(lcj.name), labels |-> {<<"listcronjob", lcj.name>>},
     annotations |-> {}, owner |-> Owner("ListCronJob", lcj.name)]

\* the write that follows the Get of the CronJob: r.Create when the Get found
\* none, else r.Update of the fetched object with the desired spec and the
\* annotation; existing is what the Get fetched, store the CronJobs at the time
\* of the write, cmv is jobCm.ResourceVersion.  Every error of the Create is
\* returned.
LCJWriteCronJob(lcj, list, existing, store, cmv, F) ==
    LET desired == LCJCronJob(lcj, list)
    IN  IF existing = <<>>
        THEN LET co == CreateOutcome(store, desired, "create-cronjob" \in F)
             IN  [cronJobs |-> CreateStore(store, desired, "create-cronjob" \in F),
                  ops |-> <<Op("create-cronjob", co)>>,
                  err |-> co # "ok"]
        ELSE LET updated == [existing[1] EXCEPT
                               !.schedule = desired.schedule,
                               !.concurrencyPolicy = desired.concurrencyPolicy,
                               !.suspend = desired.suspend,
                               !.successfulJobsHistoryLimit =
                                   desired.successfulJobsHistoryLimit,
                               !.failedJobsHistoryLimit = desired.failedJobsHistoryLimit,
                               !.completions = desired.completions,
                               !.parallelism = desired.parallelism,
                               !.completionMode = desired.completionMode,
                               !.envName = desired.envName,
                               !.volume = desired.volume,
                               !.annotations = {<<"configmap-version", cmv>>}]
                 uo == IF "update-cronjob" \in F THEN "error"
                       ELSE UpdateOutcome(store, existing[1])
             IN  [cronJobs |-> IF uo = "ok" THEN Without(store, lcj.name) \cup {updated}
                               ELSE store,
                  ops |-> <<Op("update-cronjob", uo)>>,
                  err |-> uo # "ok"]

\* what r.Get of the CronJob fetches: the stored object, or nothing
LCJExisting(store, n) == IF Has(store, n) THEN <<Obj(store, n)>> ELSE <<>>

\* the list and jobCm.ResourceVersion a pass holds when it reaches the CronJob
Held(list, cmv) == [list |-> list, cmv |-> cmv]

\* the second half of the pass: Get the CronJob, Create it or Update it; cmv is
\* jobCm.ResourceVersion
LCJUpsertCronJob(lcj, list, cms, rv, cmv, ops, F) ==
    IF "get-cronjob" \in F
    THEN CronPass(listCronJobs, cms, cronJobs, rv,
                  Result("ListCronJob", lcj.name,
                         Append(ops, Op("get-cronjob", "error")), TRUE, FALSE, <<>>))
         @@ Held(list, cmv)
    ELSE LET existing == LCJExisting(cronJobs, lcj.name)
             w == LCJWriteCronJob(lcj, list, existing, cronJobs, cmv, F)
             got == Op("get-cronjob", IF existing = <<>> THEN "NotFound" ELSE "ok")
         IN  CronPass(listCronJobs, cms, w.cronJobs, rv,
                      Result("ListCronJob", lcj.name, Append(ops, got) \o w.ops,
                             w.err, FALSE, <<>>))
             @@ Held(list, cmv)

\* the first half: Create the ConfigMap; on AlreadyExists Get it, replace its
\* Data and Update it.  jobCm.ResourceVersion is set by a successful Create only.
LCJUpsertConfigMap(lcj, list, pre, F) ==
    LET jobCm == LCJConfigMap(lcj, list)
        co == CreateOutcome(configMaps, jobCm, "create-cm" \in F)
        ops1 == Append(pre, Op("create-cm", co))
    IN  IF co = "error"
        THEN CronPass(listCronJobs, configMaps, cronJobs, nextRV,
                      Result("ListCronJob", lcj.name, ops1, TRUE, FALSE, <<>>))
        ELSE IF co = "ok"
        THEN LCJUpsertCronJob(lcj, list, configMaps \cup {jobCm}, nextRV + 1,
                              Version(jobCm.rv), ops1, F)
        ELSE IF "get-cm" \in F
        THEN CronPass(listCronJobs, configMaps, cronJobs, nextRV,
                      Result("ListCronJob", lcj.name,
                             Append(ops1, Op("get-cm", "error")), TRUE, FALSE, <<>>))
        ELSE IF "update-cm" \in F
        THEN CronPass(listCronJobs, configMaps, cronJobs, nextRV,
                      Result("ListCronJob", lcj.name,
                             ops1 \o <<Op("get-cm", "ok"), Op("update-cm", "error")>>,
                             TRUE, FALSE, <<>>))
        ELSE LET existingCm == Obj(configMaps, jobCm.name)
                 same == existingCm.key = jobCm.key /\ existingCm.value = jobCm.value
                 stored == IF same THEN existingCm
                           ELSE [existingCm EXCEPT !.key = jobCm.key,
                                                   !.value = jobCm.value,
                                                   !.rv = nextRV]
             IN  LCJUpsertCronJob(lcj, list,
                                  Without(configMaps, jobCm.name) \cup {stored},
                                  IF same THEN nextRV ELSE nextRV + 1,
                                  NoVersion,
                                  ops1 \o <<Op("get-cm", "ok"), Op("update-cm", "ok")>>, F)

\* (mutant) the items of the ledger are split without the check for ""
LCJMaterializeWithoutItemsCheck(lcj, F) ==
    LET src == LCJSource(lcj)
        lo == LedgerOutcome(lcj.listSourceRef, F)
        Fail(ops) == CronPass(listCronJobs, configMaps, cronJobs, nextRV,
                              Result("ListCronJob", lcj.name, ops, TRUE, FALSE, <<>>))
    IN  CASE src = "static" -> LCJUpsertConfigMap(lcj, lcj.staticList, <<>>, F)
          [] src = "none" -> Fail(<<Op("no-source", "error")>>)
          [] OTHER ->
               IF lo # "ok" THEN Fail(<<Op("get-ledger", lo)>>)
               ELSE LCJUpsertConfigMap(
                        lcj,
                        LCJParseLedger(DataGet(Obj(configMaps, lcj.listSourceRef), "items")),
                        <<Op("get-ledger", "ok")>>, F)

\* the pass of an active ListCronJob
LCJMaterialize(lcj, F) ==
    LET src == LCJSource(lcj)
        lo == LedgerOutcome(lcj.listSourceRef, F)
        Fail(ops) == CronPass(listCronJobs, configMaps, cronJobs, nextRV,
                              Result("ListCronJob", lcj.name, ops, TRUE, FALSE, <<>>))
    IN  CASE src = "static" -> LCJUpsertConfigMap(lcj, lcj.staticList, <<>>, F)
          [] src = "none" -> Fail(<<Op("no-source", "error")>>)
          [] OTHER ->
               IF lo # "ok" THEN Fail(<<Op("get-ledger", lo)>>)
               ELSE LET itemsStr == DataGet(Obj(configMaps, lcj.listSourceRef), "items")
                    IN  IF itemsStr = <<>>
                        THEN Fail(<<Op("get-ledger", "ok"), Op("no-items", "error")>>)
                        ELSE LCJUpsertConfigMap(lcj, LCJParseLedger(itemsStr),
                                                <<Op("get-ledger", "ok")>>, F)

LCJBranch(lcj) ==
    IF lcj.deleting THEN (IF lcj.finalizer THEN "cleanup" ELSE "gone")
    ELSE IF ~lcj.finalizer THEN "add-finalizer"
    ELSE "materialize"

LCJCalls(branch) ==
    CASE branch = "cleanup" -> {"delete-cronjob", "delete-cm", "update"}
      [] branch = "add-finalizer" -> {"update"}
      [] branch = "materialize" -> {"get-ledger", "create-cm", "get-cm", "update-cm",
                                    "get-cronjob", "create-cronjob", "update-cronjob"}
      [] OTHER -> {}

LCJFailures(branch) ==
    IF branch = "cleanup" THEN SUBSET LCJCalls(branch) ELSE Singletons(LCJCalls(branch))

LCJPass(lcj, F) ==
    LET b == LCJBranch(lcj)
    IN  CASE b = "cleanup" -> LCJCleanup(lcj, F)
          [] b = "add-finalizer" -> LCJAddFinalizer(lcj, F)
          [] b = "materialize" -> LCJMaterialize(lcj, F)
          [] OTHER -> CronPass(listCronJobs, configMaps, cronJobs, nextRV,
                               Result("ListCronJob", lcj.name, <<>>, FALSE, FALSE, <<>>))

\* ListCronJobReconciler.Reconcile for the request n; the first r.Get may fail
ReconcileListCronJob(n) ==
    /\ Has(listCronJobs, n)
    /\ \/ /\ last' = Result("ListCronJob", n, <<Op("get", "error")>>, TRUE, FALSE, <<>>)
          /\ queue' = queue \ {n}
          /\ UNCHANGED <<listCronJobs, configMaps, cronJobs, nextRV>>
       \/ \E F \in LCJFailures(LCJBranch(Obj(listCronJobs, n))) :
            LET p == LCJPass(Obj(listCronJobs, n), F)
            IN  /\ p.nextRV <= MaxRV + 1
                /\ listCronJobs' = p.listCronJobs
                /\ configMaps' = p.configMaps
                /\ cronJobs' = p.cronJobs
                /\ nextRV' = p.nextRV
                /\ last' = p.last
                /\ Enqueue(queue \ {n}, p.configMaps)
    /\ UNCHANGED <<listJobs, listSources, jobs, now, shim, passes>>

\* ------------------------------------------------------ init container
\* the lines of a text: the pieces between newlines; a final newline ends
\* the last line and starts no new one
Lines(text) ==
    LET parts == Split(text, NL)
    IN  IF parts[Len(parts)] = <<>> THEN SubSeq(parts, 1, Len(parts) - 1) ELSE parts

\* $(...): the output of a command without its trailing newlines
RECURSIVE StripNewlines(_)
StripNewlines(text) ==
    IF text # <<>> /\ text[Len(text)] = NL
    THEN StripNewlines(SubSeq(text, 1, Len(text) - 1))
    ELSE text

\* what a command prints: every line followed by a newline
RECURSIVE Emit(_)
Emit(lines) == IF lines = <<>> THEN <<>> ELSE lines[1] \o <<NL>> \o Emit(Tail(lines))

\* cut -d',' -fN on one line: a line without the delimiter is printed whole,
\* a line with fewer than N fields prints empty
CutLine(line, n) ==
    LET fields == Split(line, Comma)
    IN  IF Len(fields) = 1 THEN line
        ELSE IF n <= Len(fields) THEN fields[n]
        ELSE <<>>

\* (mutant) the field number is one too far
CutSelectOffByOne(file, index) ==
    LET lines == Lines(file)
    IN  StripNewlines(Emit([k \in 1..Len(lines) |-> CutLine(lines[k], index + 2)]))

\* VAL=$(cut -d',' -f$((JOB_COMPLETION_INDEX+1)) /list/items.txt)
CutSelect(file, index) ==
    LET lines == Lines(file)
    IN  StripNewlines(Emit([k \in 1..Len(lines) |-> CutLine(lines[k], index + 1)]))

\* ITEMS=$(cat /list/items); VAL=$(echo "$ITEMS" | sed -n "$((JOB_COMPLETION_INDEX+1))p")
SedSelect(file, index) ==
    LET items == StripNewlines(file)
        lines == Split(items, NL)
    IN  IF index + 1 <= Len(lines) THEN StripNewlines(Emit(<<lines[index + 1]>>))
        ELSE <<>>

RECURSIVE FirstWord(_)
FirstWord(text) ==
    IF text = <<>> \/ IsSpace(Head(text)) THEN <<>>
    ELSE <<Head(text)>> \o FirstWord(Tail(text))

\* echo "export NAME=$VAL" > /shared/env.sh, then ". /shared/env.sh": the
\* shell splits the unquoted text at blanks, so NAME receives the characters
\* up to the first blank or newline
Exported(val) == FirstWord(val)

\* the value the main container sees for an instance with the given index
ShimValue(kind, file, index) ==
    IF kind = "ListJob" THEN Exported(CutSelect(file, index))
    ELSE Exported(SedSelect(file, index))

\* the status of the last command of both scripts, echo "export ..." >
\* /shared/env.sh: the write to the emptyDir volume succeeds
EchoStatus == 0

\* the exit status of the init container: sh -c runs the script without -e, so
\* it is the status of the last command, whatever cut or sed selected
ShimExit(kind, file, index) == EchoStatus

\* the rendered file of a list
ShimFile(kind, list) == IF kind = "ListJob" THEN LJRender(list) ELSE LCJRender(list)

\* ------------------------------------------------ ListSource reconciler
\* the item lists a source can resolve to: items of one plain character
PlainItems == {<<c>> : c \in PlainChars}
SourceLists == SeqsUpTo(PlainItems, MaxItems)

\* (mutant) the items are joined by newlines
LedgerItemsNewlineJoined(items) == Join(items, NL)

\* the value of the key "items": the items joined by a single comma
LedgerItems(items) == Join(items, Comma)

\* the ledger ConfigMap of a ListSource
Ledger(ls, items) ==
    [name |-> ls.name, key |-> "items", value |-> LedgerItems(items),
     owner |-> Owner("ListSource", ls.name), rv |-> Untracked]

\* create the ledger if absent, else overwrite its data
PublishLedger(cms, ls, items) ==
    IF Has(cms, ls.name)
    THEN Without(cms, ls.name) \cup
            {[Obj(cms, ls.name) EXCEPT !.key = "items", !.value = LedgerItems(items)]}
    ELSE cms \cup {Ledger(ls, items)}

\* the outcome of one pass: the stores it leaves and the result it returns
LSPass(cms, lss, res) == [configMaps |-> cms, listSources |-> lss, last |-> res]

\* the result of a pass over an existing ListSource: no error, the next pass
\* one poll interval later
LSResult(ls, op) == Result("ListSource", ls.name, <<op>>, FALSE, FALSE, <<ls.interval>>)

\* the adaptor resolved the items: publish the ledger, set the item count,
\* clear the error
LSPublish(ls, items) ==
    LSPass(PublishLedger(configMaps, ls, items),
           Without(listSources, ls.name) \cup
               {[ls EXCEPT !.itemCount = Len(items), !.resolved = items,
                           !.lastError = FALSE]},
           LSResult(ls, Op("publish", "ok")))

\* (mutant) a failed resolution withdraws the ledger
LSFailWithdrawsLedger(ls) ==
    LSPass(Without(configMaps, ls.name),
           Without(listSources, ls.name) \cup {[ls EXCEPT !.lastError = TRUE]},
           LSResult(ls, Op("resolve", "error")))

\* the adaptor failed: record the error, leave the ledger as it is
LSFail(ls) ==
    LSPass(configMaps,
           Without(listSources, ls.name) \cup {[ls EXCEPT !.lastError = TRUE]},
           LSResult(ls, Op("resolve", "error")))

\* one pass over an existing ListSource: the adaptor resolves items or fails
ReconcileListSource(n) ==
    /\ Has(listSources, n)
    /\ \E p \in {LSPublish(Obj(listSources, n), items) : items \in SourceLists}
                   \cup {LSFail(Obj(listSources, n))} :
         /\ configMaps' = p.configMaps
         /\ listSources' = p.listSources
         /\ last' = p.last
         /\ Enqueue(queue, p.configMaps)
    /\ UNCHANGED <<listJobs, listCronJobs, jobs, cronJobs, now, nextRV, shim, passes>>

\* (mutant) a pass for a missing ListSource schedules the next poll
LSGoneReschedules(n) == Result("ListSource", n, <<>>, FALSE, FALSE, <<1>>)

\* the result of a pass whose ListSource is not found: nothing done, nothing
\* scheduled
LSGone(n) == Result("ListSource", n, <<>>, FALSE, FALSE, <<>>)

\* a pass for a request whose ListSource no longer exists: no-op
ReconcileListSourceGone(n) ==
    /\ ~Has(listSources, n)
    /\ last' = LSGone(n)
    /\ UNCHANGED <<listJobs, listCronJobs, listSources, configMaps, jobs, cronJobs,
                   now, queue, nextRV, shim, passes>>

\* ------------------------------------------------------- environment
\* kubectl delete listjob
UserDeleteListJob(n) ==
    /\ Has(listJobs, n)
    /\ ~Obj(listJobs, n).deleting
    /\ listJobs' = MarkDeleted(listJobs, n)
    /\ UNCHANGED <<listCronJobs, listSources, configMaps, jobs, cronJobs, now,
                   queue, last, nextRV, shim, passes>>

\* the clock advances
Tick ==
    /\ now < MaxTime
    /\ now' = now + 1
    /\ UNCHANGED <<listJobs, listCronJobs, listSources, configMaps, jobs, cronJobs,
                   queue, last, nextRV, shim, passes>>

\* is the controller owner of an object still stored?
OwnerStored(o) ==
    CASE o.owner.kind = "ListJob" -> Has(listJobs, o.owner.name)
      [] o.owner.kind = "ListCronJob" -> Has(listCronJobs, o.owner.name)
      [] o.owner.kind = "ListSource" -> Has(listSources, o.owner.name)
      [] OTHER -> TRUE

\* the platform's garbage collector removes objects whose controller owner
\* is gone
GarbageCollect ==
    /\ \E o \in configMaps \cup jobs \cup cronJobs : ~OwnerStored(o)
    /\ configMaps' = {o \in configMaps : OwnerStored(o)}
    /\ jobs' = {o \in jobs : OwnerStored(o)}
    /\ cronJobs' = {o \in cronJobs : OwnerStored(o)}
    /\ Enqueue(queue, {o \in configMaps : OwnerStored(o)})
    /\ UNCHANGED <<listJobs, listCronJobs, listSources, now, last, nextRV, shim, passes>>

\* ------------------------------------- concurrent ListJob reconcilers
\* two reconcilers may work on one ListJob: after a crash and restart, or as
\* two instances of the operator
Workers == {1, 2}

\* a worker between passes
Idle == [pc |-> "idle", branch |-> "none", lj |-> <<>>, list |-> <<>>,
         existing |-> <<>>, cmv |-> <<>>, ops |-> <<>>, err |-> FALSE]

IdleWorkers == [w \in Workers |-> Idle]

\* ------------------------------------------------------ specification
NoShim == [kind |-> "none", list |-> <<>>, file |-> <<>>, ran |-> FALSE,
           index |-> 0, out |-> <<>>, exit |-> 0, var |-> ""]

\* ListJobStatus as a new object carries it: no jobName
NoStatus == [jobName |-> <<>>]

\* a ListJob as the user applies it
NewListJob(n, static, ref, par, da) ==
    [name |-> n, finalizer |-> FALSE, deleting |-> FALSE, created |-> 0,
     firstPass |-> "none", staticList |-> static, listSourceRef |-> ref, parallelism |-> par,
     deleteAfter |-> da, envName |-> "", status |-> NoStatus]

NewListSource(n) ==
    [name |-> n, itemCount |-> 0, resolved |-> <<>>, lastError |-> FALSE,
     interval |-> 1]

Durations == {<<>>} \cup {<<d>> : d \in 0..MaxDeleteAfter}

\* one ListJob has been applied; its ListSource exists but has not resolved yet
Init ==
    /\ \E static \in SourceLists, ref \in {NoRef, SourceName},
          par \in 1..MaxParallelism, da \in Durations :
         listJobs = {NewListJob(LJName, static, ref, par, da)}
    /\ listCronJobs = {}
    /\ listSources = {NewListSource(SourceName)}
    /\ configMaps = {}
    /\ jobs = {}
    /\ cronJobs = {}
    /\ now = 0
    /\ queue = {}
    /\ last = NoPass
    /\ nextRV = 1
    /\ passes = IdleWorkers
    /\ shim = NoShim

Next ==
    \/ ReconcileListJob(LJName)
    \/ ReconcileListJobGone(LJName)
    \/ ReconcileListSource(SourceName)
    \/ UserDeleteListJob(LJName)
    \/ Tick
    \/ GarbageCollect

Spec == Init /\ [][Next]_vars

\* a ListCronJob as the user applies it
NewListCronJob(n, static, ref, par) ==
    [name |-> n, finalizer |-> FALSE, deleting |-> FALSE,
     staticList |-> static, listSourceRef |-> ref, parallelism |-> par,
     envName |-> "", schedule |-> "@hourly", concurrencyPolicy |-> "Forbid",
     suspend |-> <<FALSE>>, successfulJobsHistoryLimit |-> <<>>,
     failedJobsHistoryLimit |-> <<>>]

\* kubectl delete listcronjob
UserDeleteListCronJob(n) ==
    /\ Has(listCronJobs, n)
    /\ ~Obj(listCronJobs, n).deleting
    /\ listCronJobs' = MarkDeleted(listCronJobs, n)
    /\ UNCHANGED <<listJobs, listSources, configMaps, jobs, cronJobs, now,
                   queue, last, nextRV, shim, passes>>

\* one ListCronJob has been applied; its ListSource exists but has not
\* resolved yet
InitCron ==
    /\ \E static \in SourceLists, ref \in {NoRef, SourceName},
          par \in 1..MaxParallelism :
         listCronJobs = {NewListCronJob(LCJName, static, ref, par)}
    /\ listJobs = {}
    /\ listSources = {NewListSource(SourceName)}
    /\ configMaps = {}
    /\ jobs = {}
    /\ cronJobs = {}
    /\ now = 0
    /\ queue = {}
    /\ last = NoPass
    /\ nextRV = 1
    /\ passes = IdleWorkers
    /\ shim = NoShim

NextCron ==
    \/ ReconcileListCronJob(LCJName)
    \/ ReconcileListSource(SourceName)
    \/ UserDeleteListCronJob(LCJName)
    \/ GarbageCollect

SpecCron == InitCron /\ [][NextCron]_vars

\* ------------------------------------ racing ListJob reconcilers
\* Reconcile of a worker, one control-plane call at a time; a call fails only
\* for what the other worker and the user did in between

\* the first call of the branch the fetched ListJob takes
FirstCall(lj) ==
    LET b == LJBranch(lj)
    IN  CASE b = "cleanup" -> "delete-job"
          [] b = "add-finalizer" -> "add-finalizer"
          [] b = "expire" -> "delete-self"
          [] b = "materialize" -> (IF LJReadsLedger(lj) THEN "get-ledger" ELSE "create-cm")
          [] OTHER -> "done"

\* the worker after r.Get found the ListJob
Started(lj) ==
    [Idle EXCEPT !.pc = FirstCall(lj), !.branch = LJBranch(lj), !.lj = <<lj>>,
                 !.list = lj.staticList]

\* the worker after a call: what it does next and whether Reconcile returned
\* an error
Advance(w, call, outcome, next, err) ==
    [passes EXCEPT ![w].pc = next, ![w].ops = Append(@, Op(call, outcome)),
                   ![w].err = err]

\* r.Get(ctx, req.NamespacedName, &listJob)
RaceGet(w) ==
    /\ passes[w].pc = "idle"
    /\ passes' = [passes EXCEPT ![w] =
                    IF Has(listJobs, LJName) THEN Started(Obj(listJobs, LJName))
                    ELSE [Idle EXCEPT !.pc = "done", !.branch = "gone"]]
    /\ UNCHANGED <<listJobs, listCronJobs, listSources, configMaps, jobs, cronJobs,
                   now, queue, last, nextRV, shim>>

\* _ = r.Delete(ctx, job)
RaceDeleteJob(w) ==
    /\ passes[w].pc = "delete-job"
    /\ jobs' = DeleteStore(jobs, passes[w].lj[1].name, FALSE)
    /\ passes' = Advance(w, "delete-job",
                         DeleteOutcome(jobs, passes[w].lj[1].name, FALSE),
                         "delete-cm", FALSE)
    /\ UNCHANGED <<listJobs, listCronJobs, listSources, configMaps, cronJobs,
                   now, queue, last, nextRV, shim>>

\* _ = r.Delete(ctx, cm)
RaceDeleteConfigMap(w) ==
    /\ passes[w].pc = "delete-cm"
    /\ configMaps' = DeleteStore(configMaps, ListName(passes[w].lj[1].name), FALSE)
    /\ Enqueue(queue, DeleteStore(configMaps, ListName(passes[w].lj[1].name), FALSE))
    /\ passes' = Advance(w, "delete-cm",
                         DeleteOutcome(configMaps, ListName(passes[w].lj[1].name), FALSE),
                         "remove-finalizer", FALSE)
    /\ UNCHANGED <<listJobs, listCronJobs, listSources, jobs, cronJobs,
                   now, last, nextRV, shim>>

\* RemoveFinalizer or AddFinalizer, then r.Update(ctx, &listJob)
RaceUpdate(w) ==
    /\ passes[w].pc \in {"remove-finalizer", "add-finalizer"}
    /\ LET lj == passes[w].lj[1]
           uo == UpdateOutcome(listJobs, lj)
       IN  /\ listJobs' = IF uo = "ok"
                          THEN PersistListJob(listJobs,
                                   [lj EXCEPT !.finalizer = (passes[w].pc = "add-finalizer")])
                          ELSE listJobs
           /\ passes' = Advance(w, passes[w].pc, uo, "done", uo # "ok")
    /\ UNCHANGED <<listCronJobs, listSources, configMaps, jobs, cronJobs,
                   now, queue, last, nextRV, shim>>

\* r.Delete(ctx, &listJob) of an expired ListJob
RaceExpire(w) ==
    /\ passes[w].pc = "delete-self"
    /\ listJobs' = MarkDeleted(listJobs, passes[w].lj[1].name)
    /\ passes' = Advance(w, "delete-self",
                         DeleteOutcome(listJobs, passes[w].lj[1].name, FALSE), "done",
                         DeleteOutcome(listJobs, passes[w].lj[1].name, FALSE) # "ok")
    /\ UNCHANGED <<listCronJobs, listSources, configMaps, jobs, cronJobs,
                   now, queue, last, nextRV, shim>>

\* r.Get of the ledger and strings.Split of its items
RaceGetLedger(w) ==
    /\ passes[w].pc = "get-ledger"
    /\ LET lj == passes[w].lj[1]
           lo == LedgerOutcome(lj.listSourceRef, {})
       IN  passes' =
             IF LJLookupFailed(lo) THEN Advance(w, "get-ledger", lo, "done", TRUE)
             ELSE [Advance(w, "get-ledger", lo, "create-cm", FALSE)
                     EXCEPT ![w].list = LJList(lj)]
    /\ UNCHANGED <<listJobs, listCronJobs, listSources, configMaps, jobs, cronJobs,
                   now, queue, last, nextRV, shim>>

\* r.Create(ctx, jobCm)
RaceCreateConfigMap(w) ==
    /\ passes[w].pc = "create-cm"
    /\ LET jobCm == LJConfigMap(passes[w].lj[1], passes[w].list)
           co == CreateOutcome(configMaps, jobCm, FALSE)
       IN  /\ configMaps' = CreateStore(configMaps, jobCm, FALSE)
           /\ Enqueue(queue, CreateStore(configMaps, jobCm, FALSE))
           /\ passes' = IF CreateFailed(co) THEN Advance(w, "create-cm", co, "done", TRUE)
                        ELSE Advance(w, "create-cm", co, "create-job", FALSE)
    /\ UNCHANGED <<listJobs, listCronJobs, listSources, jobs, cronJobs,
                   now, last, nextRV, shim>>

\* r.Create(ctx, job)
RaceCreateJob(w) ==
    /\ passes[w].pc = "create-job"
    /\ LET job == LJJob(passes[w].lj[1], passes[w].list)
           jo == CreateOutcome(jobs, job, FALSE)
       IN  /\ jobs' = CreateStore(jobs, job, FALSE)
           /\ passes' = Advance(w, "create-job", jo, "done", CreateFailed(jo))
    /\ UNCHANGED <<listJobs, listCronJobs, listSources, configMaps, cronJobs,
                   now, queue, last, nextRV, shim>>

\* a ListSource after a pass that resolved the items
Resolved(ls, items) ==
    [ls EXCEPT !.itemCount = Len(items), !.resolved = items, !.lastError = FALSE]

\* a ListJob, with or without the finalizer of an earlier pass, and two idle
\* workers; a ListJob without staticList may refer to a ListSource, whose
\* ledger is either not published yet or holds the items of its last pass
InitRace ==
    /\ \E static \in SourceLists, da \in Durations, fin \in BOOLEAN :
         \/ /\ listJobs = {[NewListJob(LJName, static, NoRef, 1, da)
                              EXCEPT !.finalizer = fin]}
            /\ listSources = {}
            /\ configMaps = {}
         \/ /\ static = <<>>
            /\ listJobs = {[NewListJob(LJName, static, SourceName, 1, da)
                              EXCEPT !.finalizer = fin]}
            /\ \/ /\ listSources = {NewListSource(SourceName)}
                  /\ configMaps = {}
               \/ \E items \in SourceLists :
                    /\ listSources = {Resolved(NewListSource(SourceName), items)}
                    /\ configMaps = {Ledger(NewListSource(SourceName), items)}
    /\ listCronJobs = {}
    /\ jobs = {}
    /\ cronJobs = {}
    /\ now = 0
    /\ queue = {}
    /\ last = NoPass
    /\ nextRV = 1
    /\ shim = NoShim
    /\ passes = IdleWorkers

NextRace ==
    \/ \E w \in Workers :
         \/ RaceGet(w)
         \/ RaceDeleteJob(w)
         \/ RaceDeleteConfigMap(w)
         \/ RaceUpdate(w)
         \/ RaceExpire(w)
         \/ RaceGetLedger(w)
         \/ RaceCreateConfigMap(w)
         \/ RaceCreateJob(w)
    \/ UserDeleteListJob(LJName)
    \/ Tick
    \/ GarbageCollect

SpecRace == InitRace /\ [][NextRace]_vars

\* -------------------------------- racing ListCronJob reconcilers
\* Reconcile of a worker in two halves: up to the r.Get of the CronJob, and
\* the r.Create or r.Update that follows; the other worker may act in between

\* the pass up to the r.Get of the CronJob: the pass cut at that call
LCJUntilGet(lcj) == LCJPass(lcj, {"get-cronjob"})

\* the calls of the pass before the r.Get of the CronJob
BeforeGet(ops) == SubSeq(ops, 1, Len(ops) - 1)

\* the worker after the first half: at the write when the pass reached the
\* Get, else done with the result of the pass
AfterFirstHalf(lcj, p) ==
    IF Issued(p.last, "get-cronjob")
    THEN [Idle EXCEPT !.pc = "write-cronjob", !.branch = LCJBranch(lcj),
                      !.lj = <<lcj>>, !.list = p.list, !.cmv = p.cmv,
                      !.existing = LCJExisting(cronJobs, lcj.name),
                      !.ops = Append(BeforeGet(p.last.ops),
                                     Op("get-cronjob",
                                        IF Has(cronJobs, lcj.name) THEN "ok"
                                        ELSE "NotFound"))]
    ELSE [Idle EXCEPT !.pc = "done", !.branch = LCJBranch(lcj), !.lj = <<lcj>>,
                      !.ops = p.last.ops, !.err = p.last.err]

\* the first half of Reconcile: from r.Get of the ListCronJob to r.Get of the
\* CronJob
LCJRaceBegin(w) ==
    /\ passes[w].pc = "idle"
    /\ Has(listCronJobs, LCJName)
    /\ LET lcj == Obj(listCronJobs, LCJName)
           p == LCJUntilGet(lcj)
       IN  /\ p.nextRV <= MaxRV + 1
           /\ listCronJobs' = p.listCronJobs
           /\ configMaps' = p.configMaps
           /\ cronJobs' = p.cronJobs
           /\ nextRV' = p.nextRV
           /\ Enqueue(queue, p.configMaps)
           /\ passes' = [passes EXCEPT ![w] = AfterFirstHalf(lcj, p)]
    /\ UNCHANGED <<listJobs, listSources, jobs, now, last, shim>>

\* the second half: r.Create or r.Update of the CronJob
LCJRaceWrite(w) ==
    /\ passes[w].pc = "write-cronjob"
    /\ LET wr == LCJWriteCronJob(passes[w].lj[1], passes[w].list, passes[w].existing,
                                 cronJobs, passes[w].cmv, {})
       IN  /\ cronJobs' = wr.cronJobs
           /\ passes' = [passes EXCEPT ![w].pc = "done",
                                       ![w].ops = @ \o wr.ops,
                                       ![w].err = wr.err]
    /\ UNCHANGED <<listJobs, listCronJobs, listSources, configMaps, jobs,
                   now, queue, last, nextRV, shim>>

\* a ListCronJob, with or without the finalizer of an earlier pass, and two
\* idle workers; a ListCronJob without staticList may refer to a ListSource,
\* whose ledger is either not published yet or holds the items of its last pass
InitCronRace ==
    /\ \E static \in SourceLists, fin \in BOOLEAN :
         \/ /\ listCronJobs = {[NewListCronJob(LCJName, static, NoRef, 1)
                                  EXCEPT !.finalizer = fin]}
            /\ listSources = {}
            /\ configMaps = {}
         \/ /\ static = <<>>
            /\ listCronJobs = {[NewListCronJob(LCJName, static, SourceName, 1)
                                  EXCEPT !.finalizer = fin]}
            /\ \/ /\ listSources = {NewListSource(SourceName)}
                  /\ configMaps = {}
               \/ \E items \in SourceLists :
                    /\ listSources = {Resolved(NewListSource(SourceName), items)}
                    /\ configMaps = {Ledger(NewListSource(SourceName), items)}
    /\ listJobs = {}
    /\ jobs = {}
    /\ cronJobs = {}
    /\ now = 0
    /\ queue = {}
    /\ last = NoPass
    /\ nextRV = 1
    /\ shim = NoShim
    /\ passes = IdleWorkers

NextCronRace ==
    \/ \E w \in Workers :
         \/ LCJRaceBegin(w)
         \/ LCJRaceWrite(w)
    \/ UserDeleteListCronJob(LCJName)
    \/ GarbageCollect

SpecCronRace == InitCronRace /\ [][NextCronRace]_vars

\* ------------------------------------------------ ListSource alone
\* kubectl delete listsource: a ListSource carries no finalizer
UserDeleteListSource(n) ==
    /\ Has(listSources, n)
    /\ listSources' = Without(listSources, n)
    /\ UNCHANGED <<listJobs, listCronJobs, configMaps, jobs, cronJobs, now,
                   queue, last, nextRV, shim, passes>>

\* one ListSource has been applied with some poll interval
InitSource ==
    /\ \E iv \in 1..MaxInterval :
         listSources = {[NewListSource(SourceName) EXCEPT !.interval = iv]}
    /\ listJobs = {}
    /\ listCronJobs = {}
    /\ configMaps = {}
    /\ jobs = {}
    /\ cronJobs = {}
    /\ now = 0
    /\ queue = {}
    /\ last = NoPass
    /\ nextRV = 1
    /\ passes = IdleWorkers
    /\ shim = NoShim

NextSource ==
    \/ ReconcileListSource(SourceName)
    \/ ReconcileListSourceGone(SourceName)
    \/ UserDeleteListSource(SourceName)
    \/ Tick
    \/ GarbageCollect

SpecSource == InitSource /\ [][NextSource]_vars

\* ------------------------------------------- names within a namespace
\* the names a user may give a ListSource: any name, also one that ends in
\* "-list"
SourceNames == {SourceName, ListName(LJName), ListName(LCJName)}

\* a ListSource of some name and a ListJob or a ListCronJob that refers to it
InitNames ==
    /\ \E sn \in SourceNames, static \in {<<>>, <<<<"a">>>>} :
         /\ listSources = {NewListSource(sn)}
         /\ \/ /\ listJobs = {NewListJob(LJName, static, sn, 1, <<>>)}
               /\ listCronJobs = {}
            \/ /\ listJobs = {}
               /\ listCronJobs = {NewListCronJob(LCJName, static, sn, 1)}
    /\ configMaps = {}
    /\ jobs = {}
    /\ cronJobs = {}
    /\ now = 0
    /\ queue = {}
    /\ last = NoPass
    /\ nextRV = 1
    /\ passes = IdleWorkers
    /\ shim = NoShim

NextNames ==
    \/ ReconcileListJob(LJName)
    \/ ReconcileListCronJob(LCJName)
    \/ \E sn \in SourceNames : ReconcileListSource(sn)
    \/ UserDeleteListJob(LJName)
    \/ UserDeleteListCronJob(LCJName)
    \/ GarbageCollect

SpecNames == InitNames /\ [][NextNames]_vars

\* ------------------------------------------- both fan-out reconcilers
\* a ListJob and a ListCronJob with inline lists live in one namespace
InitOwners ==
    /\ \E static \in SourceLists, par \in 1..MaxParallelism, da \in Durations :
         /\ listJobs = {NewListJob(LJName, static, NoRef, par, da)}
         /\ listCronJobs = {NewListCronJob(LCJName, static, NoRef, par)}
    /\ listSources = {}
    /\ configMaps = {}
    /\ jobs = {}
    /\ cronJobs = {}
    /\ now = 0
    /\ queue = {}
    /\ last = NoPass
    /\ nextRV = 1
    /\ passes = IdleWorkers
    /\ shim = NoShim

NextOwners ==
    \/ ReconcileListJob(LJName)
    \/ ReconcileListCronJob(LCJName)
    \/ UserDeleteListJob(LJName)
    \/ UserDeleteListCronJob(LCJName)
    \/ GarbageCollect

SpecOwners == InitOwners /\ [][NextOwners]_vars

\* --------------------------------------- inline list and ledger both
\* a ListJob or a ListCronJob that has a non-empty staticList and also names
\* the ledger of a ListSource
InitInline ==
    /\ \E static \in SourceLists \ {<<>>}, par \in 1..MaxParallelism :
         \/ /\ listJobs = {NewListJob(LJName, static, SourceName, par, <<>>)}
            /\ listCronJobs = {}
         \/ /\ listJobs = {}
            /\ listCronJobs = {NewListCronJob(LCJName, static, SourceName, par)}
    /\ listSources = {NewListSource(SourceName)}
    /\ configMaps = {}
    /\ jobs = {}
    /\ cronJobs = {}
    /\ now = 0
    /\ queue = {}
    /\ last = NoPass
    /\ nextRV = 1
    /\ passes = IdleWorkers
    /\ shim = NoShim

NextInline ==
    \/ ReconcileListJob(LJName)
    \/ ReconcileListCronJob(LCJName)
    \/ ReconcileListSource(SourceName)
    \/ UserDeleteListJob(LJName)
    \/ UserDeleteListCronJob(LCJName)
    \/ GarbageCollect

SpecInline == InitInline /\ [][NextInline]_vars

\* ------------------------------------------------- source adaptors
\* spec.type of a ListSource: the supported types and one outside of them
SupportedTypes == {"static", "api", "postgresql"}
SourceTypes == SupportedTypes \cup {"unsupported-type"}

NoError == ""
Unsupported == "unsupported list source type"
FetchFailed == "fetch failed"

Items(items, err) == [items |-> items, err |-> err]

\* (mutant) a type outside the supported set resolves like a static source
GetItemsDefaultsToStatic(ls) ==
    IF ls.sourceType \in {"api", "postgresql"}
    THEN {Items(items, NoError) : items \in SourceLists} \cup {Items(<<>>, FetchFailed)}
    ELSE {Items(ls.staticList, NoError)}

\* getItems: dispatch on spec.type. The static adaptor returns the inline
\* list; the api and postgresql adaptors return what the external source
\* yields, or fail; any other type is an error without items
GetItems(ls) ==
    CASE ls.sourceType = "static" -> {Items(ls.staticList, NoError)}
      [] ls.sourceType \in {"api", "postgresql"} ->
            {Items(items, NoError) : items \in SourceLists}
                \cup {Items(<<>>, FetchFailed)}
      [] OTHER -> {Items(<<>>, Unsupported)}

TypedListSource(n, type, static) ==
    [name |-> n, itemCount |-> 0, resolved |-> <<>>, lastError |-> FALSE,
     interval |-> 1, sourceType |-> type, staticList |-> static]

\* one call of getItems on the ListSource; the result is recorded
CallGetItems(n) ==
    /\ Has(listSources, n)
    /\ \E r \in GetItems(Obj(listSources, n)) :
         /\ listSources' = {[Obj(listSources, n) EXCEPT
                                !.resolved = r.items,
                                !.itemCount = Len(r.items),
                                !.lastError = (r.err # NoError)]}
         /\ last' = Result("getItems", n, <<Op("getItems", r.err)>>,
                           r.err # NoError, FALSE, <<>>)
    /\ UNCHANGED <<listJobs, listCronJobs, configMaps, jobs, cronJobs, now,
                   queue, nextRV, shim, passes>>

\* kubectl apply of a changed ListSource spec
UserEditListSource(n) ==
    /\ Has(listSources, n)
    /\ \E type \in SourceTypes, static \in SourceLists :
         /\ <<type, static>> # <<Obj(listSources, n).sourceType,
                                 Obj(listSources, n).staticList>>
         /\ listSources' = {[Obj(listSources, n) EXCEPT !.sourceType = type,
                                                        !.staticList = static]}
    /\ UNCHANGED <<listJobs, listCronJobs, configMaps, jobs, cronJobs, now,
                   queue, last, nextRV, shim, passes>>

InitAdaptor ==
    /\ \E type \in SourceTypes, static \in SourceLists :
         listSources = {TypedListSource(SourceName, type, static)}
    /\ listJobs = {}
    /\ listCronJobs = {}
    /\ configMaps = {}
    /\ jobs = {}
    /\ cronJobs = {}
    /\ now = 0
    /\ queue = {}
    /\ last = NoPass
    /\ nextRV = 1
    /\ passes = IdleWorkers
    /\ shim = NoShim

NextAdaptor ==
    \/ CallGetItems(SourceName)
    \/ UserEditListSource(SourceName)

SpecAdaptor == InitAdaptor /\ [][NextAdaptor]_vars

\* ---------------------------------------- pods of the rendered objects
\* template.envName as a user may set it
EnvNames == {"", "ITEM", "WORKER"}

\* the init container of a pod of the Job, or of a Job the CronJob spawned,
\* runs for completion index i: the script the reconciler rendered reads the
\* mounted ConfigMap and writes "export <envName>=$VAL" to /shared/env.sh
RunPod(kind, unit, i) ==
    /\ Has(configMaps, ListName(unit.name))
    /\ i \in 0..(unit.completions - 1)
    /\ LET file == Obj(configMaps, ListName(unit.name)).value
       IN  shim' = [kind |-> kind, list |-> <<>>, file |-> file, ran |-> TRUE,
                    index |-> i, out |-> ShimValue(kind, file, i),
                    exit |-> ShimExit(kind, file, i), var |-> unit.envName]
    /\ UNCHANGED <<listJobs, listCronJobs, listSources, configMaps, jobs, cronJobs,
                   now, queue, last, nextRV, passes>>

RunJobPod(n) ==
    /\ Has(jobs, n)
    /\ \E i \in 0..(MaxItems - 1) : RunPod("ListJob", Obj(jobs, n), i)

RunCronJobPod(n) ==
    /\ Has(cronJobs, n)
    /\ \E i \in 0..(MaxItems - 1) : RunPod("ListCronJob", Obj(cronJobs, n), i)

\* a ListJob or a ListCronJob with an inline list and some envName
InitEnv ==
    /\ \E static \in SourceLists \ {<<>>}, e \in EnvNames :
         \/ /\ listJobs = {[NewListJob(LJName, static, NoRef, 1, <<>>)
                               EXCEPT !.envName = e]}
            /\ listCronJobs = {}
         \/ /\ listJobs = {}
            /\ listCronJobs = {[NewListCronJob(LCJName, static, NoRef, 1)
                                   EXCEPT !.envName = e]}
    /\ listSources = {}
    /\ configMaps = {}
    /\ jobs = {}
    /\ cronJobs = {}
    /\ now = 0
    /\ queue = {}
    /\ last = NoPass
    /\ nextRV = 1
    /\ passes = IdleWorkers
    /\ shim = NoShim

NextEnv ==
    \/ ReconcileListJob(LJName)
    \/ ReconcileListCronJob(LCJName)
    \/ RunJobPod(LJName)
    \/ RunCronJobPod(LCJName)

SpecEnv == InitEnv /\ [][NextEnv]_vars

\* ------------------------------------------------ retried passes
\* a ListJob without inline list names the ledger of a ListSource that has
\* not resolved yet
InitLate ==
    /\ listJobs = {NewListJob(LJName, <<>>, SourceName, 1, <<>>)}
    /\ listCronJobs = {}
    /\ listSources = {NewListSource(SourceName)}
    /\ configMaps = {}
    /\ jobs = {}
    /\ cronJobs = {}
    /\ now = 0
    /\ queue = {}
    /\ last = NoPass
    /\ nextRV = 1
    /\ passes = IdleWorkers
    /\ shim = NoShim

\* a pass of the ListJob reconciler, in which no call to the control plane
\* fails, over a ListJob whose ConfigMap or Job is still missing: the pass
\* before it asked for a requeue (finalizer added) or returned an error
RetriedPass(n) ==
    /\ Has(listJobs, n)
    /\ ~(Has(jobs, n) /\ Has(configMaps, ListName(n)))
    /\ UNCHANGED <<listCronJobs, listSources, cronJobs, now, nextRV, shim, passes>>
    /\ \E p \in {LJPass(Obj(listJobs, n), {})} :
           /\ last' = p.last
           /\ listJobs' = Recorded(p.listJobs, n, FirstPass(Obj(listJobs, n)))
           /\ configMaps' = p.configMaps
           /\ jobs' = p.jobs
           /\ Enqueue(queue, p.configMaps)

NextLate ==
    \/ ReconcileListJob(LJName)
    \/ ReconcileListSource(SourceName)

\* the work queue retries a request whose pass returned an error or asked for
\* a requeue, with backoff and without limit, and failures of the control
\* plane are transient: such a pass without a failing call is not postponed
\* for ever
SpecLate ==
    InitLate /\ [][NextLate]_vars /\ WF_vars(RetriedPass(LJName))

\* ------------------------------------- deletion held by a finalizer
\* a ListJob or a ListCronJob with an inline list; another controller may have
\* put its own finalizer on the object, which then stays stored after the
\* reconciler has removed its finalizer
InitDeleting ==
    /\ \E static \in SourceLists, other \in BOOLEAN :
         \/ /\ listJobs = {NewListJob(LJName, static, NoRef, 1, <<>>)
                              @@ [otherFinalizers |-> other]}
            /\ listCronJobs = {}
         \/ /\ listJobs = {}
            /\ listCronJobs = {NewListCronJob(LCJName, static, NoRef, 1)
                                  @@ [otherFinalizers |-> other]}
    /\ listSources = {}
    /\ configMaps = {}
    /\ jobs = {}
    /\ cronJobs = {}
    /\ now = 0
    /\ queue = {}
    /\ last = NoPass
    /\ nextRV = 1
    /\ passes = IdleWorkers
    /\ shim = NoShim

NextDeleting ==
    \/ ReconcileListJob(LJName)
    \/ ReconcileListCronJob(LCJName)
    \/ UserDeleteListJob(LJName)
    \/ UserDeleteListCronJob(LCJName)
    \/ GarbageCollect

SpecDeleting == InitDeleting /\ [][NextDeleting]_vars

\* ------------------------------------------------ retried cleanup
\* a ListJob with an inline list, which the user may delete at any time
InitTerminating ==
    /\ \E static \in SourceLists, par \in 1..MaxParallelism :
         listJobs = {NewListJob(LJName, static, NoRef, par, <<>>)}
    /\ listCronJobs = {}
    /\ listSources = {}
    /\ configMaps = {}
    /\ jobs = {}
    /\ cronJobs = {}
    /\ now = 0
    /\ queue = {}
    /\ last = NoPass
    /\ nextRV = 1
    /\ passes = IdleWorkers
    /\ shim = NoShim

\* a pass over a ListJob with a deletion timestamp in which no call to the
\* control plane fails: the deletion is an event that queues the request, and
\* a pass whose Update failed returned the error and is retried
CleanupPass(n) ==
    /\ Has(listJobs, n)
    /\ Obj(listJobs, n).deleting
    /\ UNCHANGED <<listCronJobs, listSources, cronJobs, now, nextRV, shim, passes>>
    /\ \E p \in {LJPass(Obj(listJobs, n), {})} :
           /\ last' = p.last
           /\ listJobs' = Recorded(p.listJobs, n, FirstPass(Obj(listJobs, n)))
           /\ configMaps' = p.configMaps
           /\ jobs' = p.jobs
           /\ Enqueue(queue, p.configMaps)

NextTerminating ==
    \/ ReconcileListJob(LJName)
    \/ UserDeleteListJob(LJName)
    \/ GarbageCollect

SpecTerminating ==
    InitTerminating /\ [][NextTerminating]_vars /\ WF_vars(CleanupPass(LJName))

\* ---------------------------------------------- requeue after expiry
\* a ListJob with an inline list and any deleteAfter, under a running clock
InitExpiring ==
    /\ \E static \in SourceLists, da \in Durations :
         listJobs = {NewListJob(LJName, static, NoRef, 1, da)}
    /\ listCronJobs = {}
    /\ listSources = {}
    /\ configMaps = {}
    /\ jobs = {}
    /\ cronJobs = {}
    /\ now = 0
    /\ queue = {}
    /\ last = NoPass
    /\ nextRV = 1
    /\ passes = IdleWorkers
    /\ shim = NoShim

\* a pass, in which no call to the control plane fails, over a ListJob past
\* its expiry: every pass over a ListJob with deleteAfter ends in a requeue
\* (finalizer added), in RequeueAfter deleteAfter (materialized), or in an
\* error that the work queue retries, and its deletion is an event
PassAfterExpiry(n) ==
    /\ Has(listJobs, n)
    /\ PastExpiry(Obj(listJobs, n), now)
    /\ UNCHANGED <<listCronJobs, listSources, cronJobs, now, nextRV, shim, passes>>
    /\ \E p \in {LJPass(Obj(listJobs, n), {})} :
           /\ last' = p.last
           /\ listJobs' = Recorded(p.listJobs, n, FirstPass(Obj(listJobs, n)))
           /\ configMaps' = p.configMaps
           /\ jobs' = p.jobs
           /\ Enqueue(queue, p.configMaps)

NextExpiring ==
    \/ ReconcileListJob(LJName)
    \/ Tick
    \/ GarbageCollect

SpecExpiring ==
    InitExpiring /\ [][NextExpiring]_vars /\ WF_vars(PassAfterExpiry(LJName))

\* -------------------------------------- ConfigMap watch, namespaces
\* the namespaces of the cluster, the names of ListCronJobs and of ConfigMaps
Namespaces == {"default", "batch"}
CronNames == {LCJName, <<"lcj2">>}
LedgerNames == {SourceName, <<"etc">>}

\* a ListCronJob of a namespace
InNamespace(o, ns) == o @@ [namespace |-> ns]

\* the ConfigMap of an event
ConfigMapIn(n, ns) == [name |-> n, namespace |-> ns]

\* reconcile.Request{NamespacedName{Name, Namespace}}
Request(o) == [name |-> o.name, namespace |-> o.namespace]

\* the orders in which a List call may return a set of objects
Listings(S) ==
    {l \in [1..Cardinality(S) -> S] : \A i, j \in 1..Cardinality(S) : l[i] = l[j] => i = j}

\* (mutant) the List call is not restricted to the namespace
ListEveryNamespace(store, ns) == Listings(store)

\* r.List(ctx, &listCronJobs, client.InNamespace(configMap.Namespace))
ListInNamespace(store, ns) == Listings({o \in store : o.namespace = ns})

\* the loop over listCronJobs.Items: a request is appended for every item
\* whose Spec.ListSourceRef is the name of the ConfigMap
RECURSIVE Requests(_, _)
Requests(items, cmName) ==
    IF items = <<>> THEN <<>>
    ELSE (IF Head(items).listSourceRef = cmName THEN <<Request(Head(items))>> ELSE <<>>)
         \o Requests(Tail(items), cmName)

\* the work queue holds every request once
Enqueued(requests) == {requests[i] : i \in 1..Len(requests)}

\* the result of the mapping: the ConfigMap it was called for, whether the
\* List call failed, and the requests it returned
Mapped(configMap, listFails, requests) ==
    [ctrl |-> "ConfigMapWatch", name |-> configMap.name,
     namespace |-> configMap.namespace,
     ops |-> <<Op("list", IF listFails THEN "error" ELSE "ok")>>,
     err |-> FALSE, requeue |-> FALSE, requeueAfter |-> <<>>, requests |-> requests]

\* findObjectsForConfigMap called by the watch for a changed ConfigMap; the
\* returned requests join the work queue
ConfigMapEvent ==
    \E configMap \in {ConfigMapIn(n, ns) : n \in LedgerNames, ns \in Namespaces} :
        /\ \/ /\ last' = Mapped(configMap, TRUE, <<>>)
              /\ queue' = queue
           \/ \E items \in ListInNamespace(listCronJobs, configMap.namespace) :
                /\ last' = Mapped(configMap, FALSE, Requests(items, configMap.name))
                /\ queue' = queue \cup Enqueued(Requests(items, configMap.name))
        /\ UNCHANGED <<listJobs, listCronJobs, listSources, configMaps, jobs, cronJobs,
                       now, nextRV, shim, passes>>

\* ListCronJobs in two namespaces, each name at most once per namespace, each
\* with a listSourceRef or without one
InitWatch ==
    /\ \E present \in SUBSET (CronNames \X Namespaces) :
         \E refs \in [present -> LedgerNames \cup {NoRef}] :
             listCronJobs =
                 {InNamespace(NewListCronJob(k[1], <<>>, refs[k], 1), k[2]) : k \in present}
    /\ listJobs = {}
    /\ listSources = {}
    /\ configMaps = {}
    /\ jobs = {}
    /\ cronJobs = {}
    /\ now = 0
    /\ queue = {}
    /\ last = NoPass
    /\ nextRV = 1
    /\ passes = IdleWorkers
    /\ shim = NoShim

NextWatch == ConfigMapEvent

SpecWatch == InitWatch /\ [][NextWatch]_vars

\* ------------------------------- the ListJob reconciler without finalizer
\* r.Get of the ledger whenever the staticList is empty, then
\* strings.Split(cm.Data["items"], ",")
PlainList(lj) ==
    IF Len(lj.staticList) > 0 THEN lj.staticList
    ELSE LJParseLedger(Fetched(configMaps, lj.listSourceRef))

\* the Job of this reconciler: the variable of the init container is ITEM
PlainJob(lj, list) == [LJJob(lj, list) EXCEPT !.envName = "ITEM"]

\* return ctrl.Result{}, client.IgnoreAlreadyExists(err): the pass ends at
\* every error of a Create, and returns it unless it is AlreadyExists
PlainCreateEnds(outcome) == outcome # "ok"

\* Reconcile of a ListJob that r.Get found; F is the set of calls that fail
PlainPass(lj, F) ==
    LET readsLedger == Len(lj.staticList) = 0
        lo == LedgerOutcome(lj.listSourceRef, F)
        pre == IF readsLedger THEN <<Op("get-ledger", lo)>> ELSE <<>>
    IN  IF readsLedger /\ lo # "ok"
        THEN Pass(listJobs, configMaps, jobs,
                  Result("ListJob", lj.name, pre, TRUE, FALSE, <<>>))
        ELSE
        LET list == PlainList(lj)
            jobCm == LJConfigMap(lj, list)
            co == CreateOutcome(configMaps, jobCm, "create-cm" \in F)
            cms == CreateStore(configMaps, jobCm, "create-cm" \in F)
            ops1 == Append(pre, Op("create-cm", co))
        IN  IF PlainCreateEnds(co)
            THEN Pass(listJobs, cms, jobs,
                      Result("ListJob", lj.name, ops1, co = "error", FALSE, <<>>))
            ELSE
            LET job == PlainJob(lj, list)
                jo == CreateOutcome(jobs, job, "create-job" \in F)
                js == CreateStore(jobs, job, "create-job" \in F)
                ops2 == Append(ops1, Op("create-job", jo))
            IN  Pass(listJobs, cms, js,
                     Result("ListJob", lj.name, ops2, jo = "error", FALSE, <<>>))

\* the calls of a pass, each of which may fail
PlainCalls == {"get-ledger", "create-cm", "create-job"}

\* ListJobReconciler.Reconcile for the request n; the first r.Get may fail
ReconcilePlainListJob(n) ==
    /\ Has(listJobs, n)
    /\ \/ /\ last' = Result("ListJob", n, <<Op("get", "error")>>, TRUE, FALSE, <<>>)
          /\ UNCHANGED <<listJobs, configMaps, jobs, queue>>
       \/ \E F \in Singletons(PlainCalls) :
            LET p == PlainPass(Obj(listJobs, n), F)
            IN  /\ listJobs' = p.listJobs
                /\ configMaps' = p.configMaps
                /\ jobs' = p.jobs
                /\ last' = p.last
                /\ Enqueue(queue, p.configMaps)
    /\ UNCHANGED <<listCronJobs, listSources, cronJobs, now, nextRV, shim, passes>>

\* a pass in which no call to the control plane fails, while the Job is
\* missing: more than the work queue grants, which retries a request only
\* when its pass returned an error
PlainRetriedPass(n) ==
    /\ Has(listJobs, n)
    /\ ~Has(jobs, n)
    /\ UNCHANGED <<listCronJobs, listSources, cronJobs, now, nextRV, shim, passes>>
    /\ \E p \in {PlainPass(Obj(listJobs, n), {})} :
           /\ last' = p.last
           /\ listJobs' = p.listJobs
           /\ configMaps' = p.configMaps
           /\ jobs' = p.jobs
           /\ Enqueue(queue, p.configMaps)

\* a ListJob with an inline list or a ledger; this reconciler adds no
\* finalizer
InitPlain ==
    /\ \E static \in SourceLists, ref \in {NoRef, SourceName} :
         listJobs = {NewListJob(LJName, static, ref, 1, <<>>)}
    /\ listCronJobs = {}
    /\ listSources = {NewListSource(SourceName)}
    /\ configMaps = {}
    /\ jobs = {}
    /\ cronJobs = {}
    /\ now = 0
    /\ queue = {}
    /\ last = NoPass
    /\ nextRV = 1
    /\ passes = IdleWorkers
    /\ shim = NoShim

NextPlain ==
    \/ ReconcilePlainListJob(LJName)
    \/ ReconcileListSource(SourceName)

SpecPlain ==
    InitPlain /\ [][NextPlain]_vars /\ WF_vars(PlainRetriedPass(LJName))

\* ------------------------------------------------ edited ListJobs
\* the inline lists an edit may put into the ListJob: none, or one item
EditedLists == {<<>>} \cup {<<i>> : i \in PlainItems}

\* kubectl apply of a changed ListJob spec, after the Job was created: the
\* list, the parallelism, or the template's envName
UserEditListJob(n) ==
    /\ Has(listJobs, n)
    /\ ~Obj(listJobs, n).deleting
    /\ Has(jobs, n)
    /\ \E edited \in {[Obj(listJobs, n) EXCEPT !.staticList = static]
                         : static \in EditedLists}
                    \cup {[Obj(listJobs, n) EXCEPT !.parallelism = par]
                             : par \in 1..MaxParallelism}
                    \cup {[Obj(listJobs, n) EXCEPT !.envName = e]
                             : e \in EnvNames \ {"ITEM"}} :
         /\ edited # Obj(listJobs, n)
         /\ listJobs' = {edited}
    /\ UNCHANGED <<listCronJobs, listSources, configMaps, jobs, cronJobs, now,
                   queue, last, nextRV, shim, passes>>

\* a ListJob that takes its list from the ledger of a ListSource
InitFrozen ==
    /\ listJobs = {NewListJob(LJName, <<>>, SourceName, 1, <<>>)}
    /\ listCronJobs = {}
    /\ listSources = {NewListSource(SourceName)}
    /\ configMaps = {}
    /\ jobs = {}
    /\ cronJobs = {}
    /\ now = 0
    /\ queue = {}
    /\ last = NoPass
    /\ nextRV = 1
    /\ passes = IdleWorkers
    /\ shim = NoShim

NextFrozen ==
    \/ ReconcileListJob(LJName)
    \/ ReconcileListSource(SourceName)
    \/ UserEditListJob(LJName)

SpecFrozen == InitFrozen /\ [][NextFrozen]_vars

\* ------------------------------------------------ init container runs
ShimItems == SeqsUpTo(ShimChars, MaxShimItemLen)
ShimLists == SeqsUpTo(ShimItems, MaxShimItems)

\* a fan-out reconciler has rendered a list into its ConfigMap
InitShim ==
    /\ \E kind \in {"ListJob", "ListCronJob"}, list \in ShimLists :
         shim = [kind |-> kind, list |-> list, file |-> ShimFile(kind, list),
                 ran |-> FALSE, index |-> 0, out |-> <<>>, exit |-> 0,
                 var |-> EnvNameOf("")]
    /\ listJobs = {}
    /\ listCronJobs = {}
    /\ listSources = {}
    /\ configMaps = {}
    /\ jobs = {}
    /\ cronJobs = {}
    /\ now = 0
    /\ queue = {}
    /\ last = NoPass
    /\ nextRV = 1
    /\ passes = IdleWorkers

\* the init container of the instance with completion index i runs; the
\* platform hands out the indexes 0..completions-1
RunInitContainer(i) ==
    /\ shim.kind # "none"
    /\ shim' = [shim EXCEPT !.ran = TRUE, !.index = i,
                            !.out = ShimValue(shim.kind, shim.file, i),
                            !.exit = ShimExit(shim.kind, shim.file, i)]
    /\ UNCHANGED <<listJobs, listCronJobs, listSources, configMaps, jobs, cronJobs,
                   now, queue, last, nextRV, passes>>

NextShim == \E i \in 0..MaxShimItems : RunInitContainer(i)

SpecShim == InitShim /\ [][NextShim]_vars

\* ===================================================================
\* Properties of the ListJob reconciler (specification Spec)
\* ===================================================================
TheListJob == Obj(listJobs, LJName)

\* the step is a pass of the ListJob reconciler that fetched the ListJob
LJStep ==
    /\ last'.ctrl = "ListJob"
    /\ ~Issued(last', "get")
    /\ Has(listJobs, LJName)
    /\ ReconcileListJob(LJName)

\* the fetched ListJob is neither deleting nor without finalizer nor expired
LJActive ==
    /\ ~TheListJob.deleting
    /\ TheListJob.finalizer
    /\ ~PastExpiry(TheListJob, now)

NoCallFailed(l) ==
    \A i \in 1..Len(l.ops) : l.ops[i][2] \in {"ok", "AlreadyExists"}

JobsNamed(js, n) == {j \in js : j.name = n}
ConfigMapsNamed(cms, n) == {c \in cms : c.name = n}

\* C1: a pass over an active ListJob whose Job and ConfigMap already exist, in
\* which no control-plane call fails, observes AlreadyExists on both creates,
\* returns no error and leaves exactly one Job named after the ListJob and
\* exactly one ConfigMap <name>-list, both unchanged.
C1_Idempotent ==
    [][(/\ Has(jobs, LJName)
        /\ Has(configMaps, ListName(LJName))
        /\ NoCallFailed(last')
        /\ LJStep
        /\ LJActive)
       => (/\ ~last'.err
           /\ Outcome(last', "create-cm", "AlreadyExists")
           /\ Outcome(last', "create-job", "AlreadyExists")
           /\ jobs' = jobs
           /\ configMaps' = configMaps
           /\ Cardinality(JobsNamed(jobs', LJName)) = 1
           /\ Cardinality(ConfigMapsNamed(configMaps', ListName(LJName))) = 1)]_vars

C1_Witness ==
    /\ last.ctrl = "ListJob"
    /\ ~last.err
    /\ Outcome(last, "create-cm", "AlreadyExists")
    /\ Outcome(last, "create-job", "AlreadyExists")
    /\ Cardinality(JobsNamed(jobs, LJName)) = 1
    /\ Cardinality(ConfigMapsNamed(configMaps, ListName(LJName))) = 1

\* the step is the pass that persists the removal of the finalizer from a
\* ListJob that has a deletion timestamp
RemovesFinalizer ==
    /\ Outcome(last', "remove-finalizer", "ok")
    /\ LJStep
    /\ TheListJob.deleting
    /\ TheListJob.finalizer

\* C2 (as claimed): whenever the removal of the finalizer is persisted, the Job
\* and the ConfigMap <name>-list are gone, also when control-plane calls fail.
C2_DeletedBeforeFinalizerRemoval ==
    [][RemovesFinalizer
       => (/\ ~Has(jobs', LJName)
           /\ ~Has(configMaps', ListName(LJName))
           /\ ~Has(listJobs', LJName))]_vars

\* C2 (amended): whenever the removal of the finalizer is persisted, the pass
\* has issued the delete of the Job, then the delete of the ConfigMap, then the
\* Update; each of the two objects is gone unless its delete call failed; and
\* the ListJob is gone from the store after the Update.
C2_DeletesIssuedBeforeFinalizerRemoval ==
    [][RemovesFinalizer
       => (/\ Len(last'.ops) = 3
           /\ last'.ops[1][1] = "delete-job"
           /\ last'.ops[2][1] = "delete-cm"
           /\ last'.ops[3] = Op("remove-finalizer", "ok")
           /\ (last'.ops[1][2] # "error" => ~Has(jobs', LJName))
           /\ (last'.ops[2][2] # "error" => ~Has(configMaps', ListName(LJName)))
           /\ ~last'.err
           /\ ~Has(listJobs', LJName))]_vars

C2_Witness ==
    /\ last.ctrl = "ListJob"
    /\ last.ops = <<Op("delete-job", "ok"), Op("delete-cm", "ok"),
                    Op("remove-finalizer", "ok")>>
    /\ ~Has(listJobs, LJName)
    /\ ~Has(jobs, LJName)
    /\ ~Has(configMaps, ListName(LJName))

\* C3: a pass creates a ConfigMap or a Job only for a ListJob whose stored
\* object has the finalizer; the pass that finds the finalizer missing on a
\* ListJob that is not deleting issues the finalizer Update and nothing else,
\* creates nothing, and either persists the finalizer and requests a requeue
\* or returns the error of the Update with the ListJob as it was.
C3_FinalizerBeforeOwnedObjects ==
    [][LJStep
       => (/\ (Outcome(last', "create-cm", "ok") \/ Outcome(last', "create-job", "ok"))
                 => TheListJob.finalizer
           /\ (~TheListJob.finalizer /\ ~TheListJob.deleting)
                 => (/\ jobs' = jobs
                     /\ configMaps' = configMaps
                     /\ Len(last'.ops) = 1
                     /\ last'.ops[1][1] = "add-finalizer"
                     /\ last'.ops[1][2] = "ok"
                          => (/\ ~last'.err
                              /\ last'.requeue
                              /\ Obj(listJobs', LJName).finalizer)
                     /\ last'.ops[1][2] # "ok"
                          => (/\ last'.err
                              /\ ~last'.requeue
                              /\ ~Obj(listJobs', LJName).finalizer)))]_vars

C3_Witness ==
    /\ last.ctrl = "ListJob"
    /\ last.ops = <<Op("add-finalizer", "ok")>>
    /\ last.requeue
    /\ Has(listJobs, LJName)
    /\ TheListJob.finalizer
    /\ jobs = {}
    /\ ~Has(configMaps, ListName(LJName))

\* C4: a pass over a ListJob that is not deleting, has the finalizer and is
\* past creationTimestamp + deleteAfter issues a delete of the ListJob itself
\* and creates neither a ConfigMap nor a Job; and a ListJob that was past its
\* expiry when it was first reconciled never has a Job.
C4_Expiry ==
    /\ [][(/\ LJStep
           /\ ~TheListJob.deleting
           /\ TheListJob.finalizer
           /\ PastExpiry(TheListJob, now))
          => (/\ last'.ops \in {<<Op("delete-self", "ok")>>, <<Op("delete-self", "error")>>}
              /\ jobs' = jobs
              /\ configMaps' = configMaps)]_vars
    /\ [](\A lj \in listJobs : lj.firstPass = "expired" => ~Has(jobs, lj.name))

C4_Witness ==
    /\ last.ctrl = "ListJob"
    /\ last.ops = <<Op("delete-self", "ok")>>
    /\ Has(listJobs, LJName)
    /\ TheListJob.firstPass = "expired"
    /\ TheListJob.deleting
    /\ jobs = {}
    /\ ~Has(configMaps, ListName(LJName))

\* C5: a pass over an active ListJob with an empty staticList whose
\* listSourceRef names a ConfigMap that does not exist returns an error and
\* creates neither the ConfigMap <name>-list nor the Job.
C5_MissingLedger ==
    [][(/\ LJStep
        /\ LJActive
        /\ TheListJob.staticList = <<>>
        /\ TheListJob.listSourceRef # NoRef
        /\ ~Has(configMaps, TheListJob.listSourceRef))
       => (/\ last'.err
           /\ ~Issued(last', "create-cm")
           /\ ~Issued(last', "create-job")
           /\ jobs' = jobs
           /\ configMaps' = configMaps)]_vars

C5_Witness ==
    /\ last.ctrl = "ListJob"
    /\ last.ops = <<Op("get-ledger", "NotFound")>>
    /\ last.err
    /\ Has(listJobs, LJName)
    /\ TheListJob.staticList = <<>>
    /\ ~Has(configMaps, TheListJob.listSourceRef)
    /\ jobs = {}
    /\ ~Has(configMaps, ListName(LJName))

\* the step is a pass that created the Job of the ListJob
CreatesJob == Outcome(last', "create-job", "ok") /\ LJStep

\* C6: the Job a pass creates for a ListJob with a non-empty staticList L and
\* parallelism P has completions = len(L), parallelism = P and completion
\* mode Indexed.
C6_StaticShape ==
    [][(CreatesJob /\ Len(TheListJob.staticList) > 0)
       => (/\ Has(jobs', LJName)
           /\ Obj(jobs', LJName).completions = Len(TheListJob.staticList)
           /\ Obj(jobs', LJName).parallelism = TheListJob.parallelism
           /\ Obj(jobs', LJName).completionMode = "Indexed")]_vars

C6_Witness ==
    /\ last.ctrl = "ListJob"
    /\ Outcome(last, "create-job", "ok")
    /\ Has(listJobs, LJName)
    /\ Len(TheListJob.staticList) = 2
    /\ TheListJob.parallelism = 1
    /\ Has(jobs, LJName)
    /\ Obj(jobs, LJName).completions = 2
    /\ Obj(jobs, LJName).parallelism = 1

\* C7 (as claimed): the Job a pass creates for a ListJob with an empty
\* staticList whose listSourceRef names an existing ledger has completions
\* equal to the item count in the status of the ListSource, for every
\* resolved list, the empty one included.
C7_LedgerShape ==
    [][(/\ CreatesJob
        /\ TheListJob.staticList = <<>>
        /\ Has(configMaps, TheListJob.listSourceRef)
        /\ Has(listSources, TheListJob.listSourceRef))
       => Obj(jobs', LJName).completions
            = Obj(listSources, TheListJob.listSourceRef).itemCount]_vars

\* ===================================================================
\* Properties of the init container (specification SpecShim)
\* ===================================================================
\* the init container ran for an index that is a position of the list
ShimInRange == shim.ran /\ shim.index < Len(shim.list)

\* the characters an item must avoid for its rendering: the separator of the
\* rendering, the newline, and the blank at which the shell splits
Unsafe(kind) == IF kind = "ListJob" THEN {Comma, NL, SP} ELSE {NL, SP}

SafeItem(kind, item) == \A k \in 1..Len(item) : item[k] \notin Unsafe(kind)

SafeList(kind, list) == \A k \in 1..Len(list) : SafeItem(kind, list[k])

\* C8 (as claimed): for every item list and every index in range the main
\* container receives the item at that index, whatever characters the items
\* contain, in both renderings.
C8_PositionalAnyCharacters ==
    ShimInRange => shim.out = shim.list[shim.index + 1]

\* C8 (amended): the same for item lists whose items contain no newline and no
\* blank and, for the ListJob rendering, no comma.
C8_PositionalSafeItems ==
    (ShimInRange /\ SafeList(shim.kind, shim.list))
        => shim.out = shim.list[shim.index + 1]

C8_Witness ==
    /\ shim.ran
    /\ shim.kind = "ListJob"
    /\ shim.list = <<<<"a">>, <<"b", "a">>>>
    /\ shim.index = 1
    /\ shim.out = <<"b", "a">>

\* ===================================================================
\* Properties of the ListCronJob reconciler (specification SpecCron)
\* ===================================================================
TheListCronJob == Obj(listCronJobs, LCJName)

\* the step is a pass of the ListCronJob reconciler that fetched the object
LCJStep ==
    /\ last'.ctrl = "ListCronJob"
    /\ ~Issued(last', "get")
    /\ Has(listCronJobs, LCJName)
    /\ ReconcileListCronJob(LCJName)

\* the items a rendered ConfigMap of a ListCronJob holds: one per line
RenderedItems(cm) == Split(cm.value, NL)

\* C9 (as claimed): the pass that serves a request the ConfigMap watch
\* enqueued for a ListCronJob (not deleting, finalizer present, empty
\* staticList) referencing the ledger, and that returns no error, leaves the
\* ConfigMap <name>-list holding the items the ListSource resolved into the
\* ledger.
C9_LedgerInvalidation ==
    [][(/\ LCJName \in queue
        /\ ~last'.err
        /\ LCJStep
        /\ TheListCronJob.finalizer
        /\ ~TheListCronJob.deleting
        /\ TheListCronJob.staticList = <<>>
        /\ TheListCronJob.listSourceRef = SourceName
        /\ Has(listSources, SourceName))
       => (/\ Has(configMaps', ListName(LCJName))
           /\ RenderedItems(Obj(configMaps', ListName(LCJName)))
                = Obj(listSources, SourceName).resolved)]_vars

\* C10 (as claimed): a pass that changes the content of the ConfigMap
\* <name>-list and updates an existing CronJob that carries a stamped
\* configmap-version stamps the ConfigMap's current resource version, which
\* differs from the stamp the CronJob carried.
C10_TemplateRevision ==
    [][(/\ Outcome(last', "update-cronjob", "ok")
        /\ LCJStep
        /\ Has(configMaps, ListName(LCJName))
        /\ Has(configMaps', ListName(LCJName))
        /\ Obj(configMaps', ListName(LCJName)).value
             # Obj(configMaps, ListName(LCJName)).value
        /\ Has(cronJobs, LCJName)
        /\ Obj(cronJobs, LCJName).annotations # {})
       => (/\ Obj(cronJobs', LCJName).annotations
                = {<<"configmap-version",
                     Version(Obj(configMaps', ListName(LCJName)).rv)>>}
           /\ Obj(cronJobs', LCJName).annotations
                # Obj(cronJobs, LCJName).annotations)]_vars

\* the step is a pass that wrote the CronJob of a ListCronJob (not deleting,
\* finalizer present, empty staticList) from the ledger of its ListSource
WritesCronJobFromLedger ==
    /\ (Outcome(last', "create-cronjob", "ok") \/ Outcome(last', "update-cronjob", "ok"))
    /\ LCJStep
    /\ TheListCronJob.finalizer
    /\ ~TheListCronJob.deleting
    /\ TheListCronJob.staticList = <<>>
    /\ TheListCronJob.listSourceRef = SourceName
    /\ Has(configMaps, SourceName)

\* C11 (as claimed): from a ledger as the ListSource reconciler writes it, the
\* ListCronJob reconciler derives the ordered item list the ListJob reconciler
\* derives from the same ledger, and gives its CronJob that many completions.
C11_SameTranslation ==
    [][WritesCronJobFromLedger
       => (/\ LCJParseLedger(DataGet(Obj(configMaps, SourceName), "items"))
                = LJParseLedger(Obj(configMaps, SourceName))
           /\ Obj(cronJobs', LCJName).completions
                = Len(LJParseLedger(Obj(configMaps, SourceName))))]_vars

\* ===================================================================
\* Properties of the ListSource reconciler (specifications Spec, SpecSource)
\* ===================================================================
TheListSource == Obj(listSources, SourceName)

\* the step is a pass of the ListSource reconciler over the existing ListSource
LSStep ==
    /\ last'.ctrl = "ListSource"
    /\ Has(listSources, SourceName)
    /\ ReconcileListSource(SourceName)

\* the number of characters of the items of a list
RECURSIVE TotalLen(_)
TotalLen(list) == IF list = <<>> THEN 0 ELSE Len(list[1]) + TotalLen(Tail(list))

\* text is the items of the list L, in order, with a single comma between
\* neighbours (the items hold no comma themselves)
CommaJoined(text, L) ==
    IF L = <<>> THEN text = <<>>
    ELSE /\ Split(text, Comma) = L
         /\ Len(text) = TotalLen(L) + Len(L) - 1

C13_StaleButAvailable ==
    [][(LSStep /\ Outcome(last', "resolve", "error"))
       => (/\ configMaps' = configMaps
           /\ Obj(listSources', SourceName).lastError
           /\ Obj(listSources', SourceName).itemCount = TheListSource.itemCount)]_vars

\* a failed pass after a successful one: the ledger is still there
C13_Witness ==
    /\ last.ctrl = "ListSource"
    /\ Outcome(last, "resolve", "error")
    /\ Has(listSources, SourceName)
    /\ TheListSource.lastError
    /\ TheListSource.resolved = <<<<"b">>>>
    /\ Has(configMaps, SourceName)
    /\ Obj(configMaps, SourceName).value = <<"b">>

\* C14: every pass over an existing ListSource, successful or failed, returns
\* without error and asks for the next pass one poll interval later; a pass
\* for a ListSource that no longer exists changes nothing and schedules
\* nothing.
C14_PollingNeverStops ==
    [][(/\ LSStep
           => (/\ last'.requeueAfter = <<TheListSource.interval>>
               /\ ~last'.err
               /\ Has(listSources', SourceName)))
       /\ (ReconcileListSourceGone(SourceName)
           => (/\ last'.requeueAfter = <<>>
               /\ ~last'.requeue
               /\ ~last'.err
               /\ last'.ops = <<>>
               /\ configMaps' = configMaps
               /\ listSources' = listSources))]_vars

\* a no-op pass after the ListSource was deleted while its ledger is still
\* stored
C14_Witness ==
    /\ last.ctrl = "ListSource"
    /\ last.ops = <<>>
    /\ last.requeueAfter = <<>>
    /\ ~Has(listSources, SourceName)
    /\ Has(configMaps, SourceName)

\* a failed pass of a ListSource polled every two units of time
C14_WitnessFailedPass ==
    /\ last.ctrl = "ListSource"
    /\ Outcome(last, "resolve", "error")
    /\ last.requeueAfter = <<2>>
    /\ Has(listSources, SourceName)

\* ===================================================================
\* Properties of the ledger's writers (specification SpecNames)
\* ===================================================================
\* the step is a pass of the ListJob or of the ListCronJob reconciler
FanOutStep ==
    \/ (last'.ctrl = "ListJob" /\ ReconcileListJob(LJName))
    \/ (last'.ctrl = "ListCronJob" /\ ReconcileListCronJob(LCJName))

\* C15 (as claimed): no pass of the ListJob or ListCronJob reconciler creates,
\* overwrites or deletes the ConfigMap named after a ListSource, whatever the
\* names of the ListSource, the ListJob and the ListCronJob are.
C15_SingleWriterLedger ==
    [][FanOutStep
       => \A ls \in listSources :
            ConfigMapsNamed(configMaps', ls.name) = ConfigMapsNamed(configMaps, ls.name)]_vars

\* ===================================================================
\* Properties of racing ListJob reconcilers (specification SpecRace)
\* ===================================================================
\* the pass of the worker is over
Finished(w) == passes[w].pc = "done"

\* the pass of the worker fetched an active ListJob, resolved its list and
\* went on to create the ConfigMap
Creator(w) == passes[w].branch = "materialize" /\ Issued(passes[w], "create-cm")

\* C16: when the passes of two workers for the same ListJob both went on to
\* create its objects, in whatever order their calls interleaved, both passes
\* finished without error, and exactly one Job named after the ListJob and
\* exactly one ConfigMap <name>-list exist.
C16_RacingCreators ==
    (\A w \in Workers : Finished(w) /\ Creator(w))
        => (/\ \A w \in Workers : ~passes[w].err
            /\ Cardinality(JobsNamed(jobs, LJName)) = 1
            /\ Cardinality(ConfigMapsNamed(configMaps, ListName(LJName))) = 1)

\* worker 1 created the ConfigMap, worker 2 the Job, and each met
\* AlreadyExists on the other object
C16_Witness ==
    /\ \A w \in Workers : Finished(w) /\ Creator(w) /\ ~passes[w].err
    /\ Outcome(passes[1], "create-cm", "ok")
    /\ Outcome(passes[1], "create-job", "AlreadyExists")
    /\ Outcome(passes[2], "create-cm", "AlreadyExists")
    /\ Outcome(passes[2], "create-job", "ok")
    /\ Cardinality(JobsNamed(jobs, LJName)) = 1
    /\ Cardinality(ConfigMapsNamed(configMaps, ListName(LJName))) = 1

\* ===================================================================
\* Properties of racing ListCronJob reconcilers (specification SpecCronRace)
\* ===================================================================
\* the step is the r.Create of a worker whose r.Get found no CronJob, and the
\* Create fails with AlreadyExists because the other worker created the
\* CronJob in between
LosesCreateRace(w) ==
    /\ passes[w].pc = "write-cronjob"
    /\ passes[w].existing = <<>>
    /\ Has(cronJobs, LCJName)
    /\ LCJRaceWrite(w)

\* C17 (as claimed): a pass that found no CronJob and whose Create then fails
\* with AlreadyExists treats this as success and returns no error.
C17_RacingCronJobCreators ==
    [][\A w \in Workers :
         LosesCreateRace(w)
           => (/\ Outcome(passes'[w], "create-cronjob", "AlreadyExists")
               /\ ~passes'[w].err)]_vars

\* ===================================================================
\* Properties of error handling (specifications Spec, SpecShim)
\* ===================================================================
\* the fetched ListJob names no source at all: no staticList, no listSourceRef
Malformed == TheListJob.staticList = <<>> /\ TheListJob.listSourceRef = NoRef

\* C18 (as claimed): a pass over an active ListJob that has neither a
\* staticList nor a listSourceRef ends the reconciliation: it records an error
\* in the status of the ListJob and returns neither an error nor a requeue, so
\* that the unchanged object is not reconciled again.
C18_MalformedIsTerminal ==
    [][(LJStep /\ LJActive /\ Malformed)
       => (/\ ~last'.err
           /\ ~last'.requeue
           /\ last'.requeueAfter = <<>>
           /\ Has(listJobs', LJName)
           /\ Obj(listJobs', LJName).status # NoStatus)]_vars

\* C19 (as claimed): when the init container runs with a completion index that
\* is not a position of the rendered item list, it exits with a failure, so
\* that the main container does not run.
C19_OutOfRangeIsFatal ==
    (shim.ran /\ shim.index >= Len(shim.list)) => shim.exit # 0

\* ===================================================================
\* Properties of the ListCronJob life cycle (specification SpecCron)
\* ===================================================================
\* the pass wrote a ConfigMap or a CronJob
LCJWrote(l) ==
    \/ Outcome(l, "create-cm", "ok")
    \/ Outcome(l, "update-cm", "ok")
    \/ Outcome(l, "create-cronjob", "ok")
    \/ Outcome(l, "update-cronjob", "ok")

\* C20: the pass over a ListCronJob that has a deletion timestamp and the
\* finalizer issues the delete of the CronJob <name>, then the delete of the
\* ConfigMap <name>-list, and only then the Update that removes the finalizer
\* (each object is gone after the pass unless its delete call failed; when the
\* Update succeeds the ListCronJob is gone); the pass over a ListCronJob
\* without deletion timestamp and without finalizer only adds the finalizer
\* and asks for an immediate requeue, and a pass writes a ConfigMap or a
\* CronJob only for a ListCronJob that already has the finalizer.
C20_TwoPhaseDeletion ==
    [][LCJStep
       => (/\ (TheListCronJob.deleting /\ TheListCronJob.finalizer)
                => (/\ Len(last'.ops) = 3
                    /\ last'.ops[1][1] = "delete-cronjob"
                    /\ last'.ops[2][1] = "delete-cm"
                    /\ last'.ops[3][1] = "remove-finalizer"
                    /\ (last'.ops[1][2] # "error" => ~Has(cronJobs', LCJName))
                    /\ (last'.ops[2][2] # "error"
                          => ~Has(configMaps', ListName(LCJName)))
                    /\ (last'.ops[3][2] = "ok") = ~Has(listCronJobs', LCJName)
                    /\ last'.err = (last'.ops[3][2] # "ok"))
           /\ (~TheListCronJob.deleting /\ ~TheListCronJob.finalizer)
                => (/\ Len(last'.ops) = 1
                    /\ last'.ops[1][1] = "add-finalizer"
                    /\ configMaps' = configMaps
                    /\ cronJobs' = cronJobs
                    /\ last'.ops[1][2] = "ok"
                         => (/\ last'.requeue
                             /\ ~last'.err
                             /\ Obj(listCronJobs', LCJName).finalizer)
                    /\ last'.ops[1][2] # "ok"
                         => (/\ last'.err
                             /\ ~Obj(listCronJobs', LCJName).finalizer))
           /\ LCJWrote(last') => (TheListCronJob.finalizer /\ ~TheListCronJob.deleting))]_vars

\* the cleanup pass removed an existing CronJob and ConfigMap and then the
\* finalizer
C20_Witness ==
    /\ last.ctrl = "ListCronJob"
    /\ last.ops = <<Op("delete-cronjob", "ok"), Op("delete-cm", "ok"),
                    Op("remove-finalizer", "ok")>>
    /\ ~Has(listCronJobs, LCJName)
    /\ ~Has(cronJobs, LCJName)
    /\ ~Has(configMaps, ListName(LCJName))

\* ===================================================================
\* Properties of the ListCronJob upsert (specification SpecCron)
\* ===================================================================
\* the current item list of a ListCronJob: its staticList when that is not
\* empty, else the items its ListSource resolved into the ledger
CurrentItems(lcj) ==
    IF Len(lcj.staticList) > 0 THEN lcj.staticList
    ELSE Obj(listSources, lcj.listSourceRef).resolved

\* C21 (as claimed): after a pass that returns no error over a ListCronJob
\* that is not deleting (and has its finalizer), the CronJob <name> exists with
\* schedule, concurrency policy, suspend flag, history limits and parallelism
\* of the ListCronJob spec and completions equal to the length of the current
\* item list, and the ConfigMap <name>-list holds the current item list,
\* whether the objects were created or existed before.
C21_UpsertConvergence ==
    [][(/\ ~last'.err
        /\ LCJStep
        /\ ~TheListCronJob.deleting
        /\ TheListCronJob.finalizer)
       => (/\ Has(cronJobs', LCJName)
           /\ LET cj == Obj(cronJobs', LCJName)
                  lcj == TheListCronJob
              IN  /\ cj.schedule = lcj.schedule
                  /\ cj.concurrencyPolicy = lcj.concurrencyPolicy
                  /\ cj.suspend = lcj.suspend
                  /\ cj.successfulJobsHistoryLimit = lcj.successfulJobsHistoryLimit
                  /\ cj.failedJobsHistoryLimit = lcj.failedJobsHistoryLimit
                  /\ cj.parallelism = lcj.parallelism
                  /\ cj.completions = Len(CurrentItems(lcj))
           /\ Has(configMaps', ListName(LCJName))
           /\ RenderedItems(Obj(configMaps', ListName(LCJName)))
                = CurrentItems(TheListCronJob))]_vars

\* ===================================================================
\* Further properties of the ListJob reconciler (specification Spec)
\* ===================================================================
\* the step is the Terminating pass: the fetched ListJob has a deletion
\* timestamp and the finalizer
Terminating == LJStep /\ TheListJob.deleting /\ TheListJob.finalizer

\* C22: in the Terminating pass the Update that removes the finalizer is
\* issued whatever the delete of the Job and the delete of the ConfigMap
\* returned, and when the Update succeeds the pass returns no error and the
\* finalizer is gone (the ListJob leaves the store).
C22_BestEffortCleanup ==
    [][Terminating
       => (/\ Issued(last', "delete-job")
           /\ Issued(last', "delete-cm")
           /\ Issued(last', "remove-finalizer")
           /\ Outcome(last', "remove-finalizer", "ok")
                => (~last'.err /\ ~Has(listJobs', LJName))
           /\ last'.err => Outcome(last', "remove-finalizer", "error"))]_vars

\* both deletes failed, the finalizer was removed all the same and the Job is
\* still stored
C22_Witness ==
    /\ last.ctrl = "ListJob"
    /\ last.ops = <<Op("delete-job", "error"), Op("delete-cm", "error"),
                    Op("remove-finalizer", "ok")>>
    /\ ~last.err
    /\ ~Has(listJobs, LJName)
    /\ Has(jobs, LJName)

\* ===================================================================
\* Owner references (specification SpecOwners)
\* ===================================================================
\* the objects of a store that the step added under a name that was free
Added(before, after) == {o \in after : ~Has(before, o.name)}

\* C23: every ConfigMap, Job and CronJob that a pass of the ListJob or the
\* ListCronJob reconciler creates carries the controller owner reference to
\* the object of that pass; and in every reachable state every Job and CronJob,
\* and every ConfigMap that no ListSource owns, names as its owner the ListJob
\* or ListCronJob it is named after, so it is removed by the garbage collector
\* once that owner is gone.
C23_OwnerReferences ==
    /\ [][FanOutStep
          => \A o \in Added(configMaps, configMaps') \cup Added(jobs, jobs')
                        \cup Added(cronJobs, cronJobs') :
                o.owner = Owner(last'.ctrl, last'.name)]_vars
    /\ [](/\ \A j \in jobs : j.owner = Owner("ListJob", j.name)
          /\ \A c \in cronJobs : c.owner = Owner("ListCronJob", c.name)
          /\ \A c \in configMaps :
                \/ c.owner.kind = "ListSource"
                \/ /\ c.owner.kind \in {"ListJob", "ListCronJob"}
                   /\ c.name = ListName(c.owner.name))

\* the ListJob was released while the delete of its Job had failed: the Job
\* names an owner that is gone and the garbage collector may remove it
C23_Witness ==
    /\ last.ctrl = "ListJob"
    /\ Outcome(last, "delete-job", "error")
    /\ ~Has(listJobs, LJName)
    /\ \E j \in jobs : j.owner = Owner("ListJob", LJName) /\ ~OwnerStored(j)
    /\ ENABLED GarbageCollect

\* ===================================================================
\* Metadata and status of the Job (specification Spec)
\* ===================================================================
\* C24 (as claimed): every Job created for a ListJob named N carries the
\* label listjob=N.
C24_JobLabel ==
    [][(LJStep /\ CreatesJob)
       => \A j \in JobsNamed(jobs', LJName) : <<"listjob", LJName>> \in j.labels]_vars

\* C25 (as claimed): after the pass that creates the Job, the status.jobName
\* of the ListJob holds the name of that Job.
C25_ObservedStatus ==
    [][(LJStep /\ CreatesJob)
       => (/\ Has(listJobs', LJName)
           /\ Obj(listJobs', LJName).status.jobName = <<LJName>>)]_vars

\* ===================================================================
\* Precedence of the inline list (specification SpecInline)
\* ===================================================================
\* some call of the pass failed
SomeCallFailed(l) == \E i \in 1..Len(l.ops) : l.ops[i][2] = "error"

\* the ledger as stored: absent, or its content
LedgerState(cms) ==
    IF Has(cms, SourceName) THEN <<Obj(cms, SourceName)>> ELSE <<>>

\* C26: a pass over an active ListJob or ListCronJob that has a non-empty
\* staticList and also a listSourceRef does not read the ledger, fails only
\* when one of its own calls fails, writes the staticList into the ConfigMap
\* <name>-list, gives the Job or CronJob it writes completions =
\* len(staticList), and leaves the ledger as it was: present or missing,
\* whatever it holds.
C26_InlineListTakesPrecedence ==
    /\ [][(LJStep /\ LJActive /\ TheListJob.listSourceRef = SourceName
             /\ Len(TheListJob.staticList) > 0)
          => (/\ ~Issued(last', "get-ledger")
              /\ last'.err => SomeCallFailed(last')
              /\ Outcome(last', "create-cm", "ok")
                   => Obj(configMaps', ListName(LJName)).value
                        = LJRender(TheListJob.staticList)
              /\ Outcome(last', "create-job", "ok")
                   => Obj(jobs', LJName).completions = Len(TheListJob.staticList)
              /\ LedgerState(configMaps') = LedgerState(configMaps))]_vars
    /\ [][(LCJStep /\ ~TheListCronJob.deleting /\ TheListCronJob.finalizer
             /\ TheListCronJob.listSourceRef = SourceName
             /\ Len(TheListCronJob.staticList) > 0)
          => (/\ ~Issued(last', "get-ledger")
              /\ last'.err => SomeCallFailed(last')
              /\ (Outcome(last', "create-cm", "ok") \/ Outcome(last', "update-cm", "ok"))
                   => RenderedItems(Obj(configMaps', ListName(LCJName)))
                        = TheListCronJob.staticList
              /\ (Outcome(last', "create-cronjob", "ok")
                    \/ Outcome(last', "update-cronjob", "ok"))
                   => Obj(cronJobs', LCJName).completions
                        = Len(TheListCronJob.staticList)
              /\ LedgerState(configMaps') = LedgerState(configMaps))]_vars

\* the Job was created from the inline list while the ledger held a different
\* list
C26_Witness ==
    /\ last.ctrl = "ListJob"
    /\ Outcome(last, "create-job", "ok")
    /\ Has(configMaps, SourceName)
    /\ Has(listJobs, LJName) /\ Has(jobs, LJName)
    /\ LJParseLedger(Obj(configMaps, SourceName)) # TheListJob.staticList
    /\ Len(LJParseLedger(Obj(configMaps, SourceName))) # Len(TheListJob.staticList)
    /\ Obj(jobs, LJName).completions = Len(TheListJob.staticList)

\* ===================================================================
\* Properties of the source adaptors (specification SpecAdaptor)
\* ===================================================================
\* the step is a call of getItems on the ListSource
GetItemsStep == last'.ctrl = "getItems" /\ CallGetItems(SourceName)

\* C27: getItems on a ListSource of type static returns the inline list
\* unchanged and no error; on a ListSource whose type is outside the supported
\* set it returns no items and the error "unsupported list source type".
C27_AdaptorDispatch ==
    [][GetItemsStep
       => LET ls == Obj(listSources, SourceName)
              after == Obj(listSources', SourceName)
          IN  /\ ls.sourceType = "static"
                   => (/\ after.resolved = ls.staticList
                       /\ ~last'.err
                       /\ last'.ops = <<Op("getItems", NoError)>>)
              /\ ls.sourceType \notin SupportedTypes
                   => (/\ after.resolved = <<>>
                       /\ last'.err
                       /\ last'.ops = <<Op("getItems", Unsupported)>>)]_vars

\* getItems was called on a source of an unsupported type that carries an
\* inline list, and returned the error and no items
C27_Witness ==
    /\ last.ctrl = "getItems"
    /\ last.ops = <<Op("getItems", Unsupported)>>
    /\ \E ls \in listSources :
         /\ ls.sourceType \notin SupportedTypes
         /\ Len(ls.staticList) = MaxItems
         /\ ls.resolved = <<>>

\* ===================================================================
\* The variable the item is exported under (specification SpecEnv)
\* ===================================================================
\* template.envName, ITEM when it is empty
ExpectedEnvName(o) == IF o.envName = "" THEN "ITEM" ELSE o.envName

\* C28: the init container of a pod of a ListJob's Job, or of a ListCronJob's
\* CronJob, exports the item of its completion index under the variable named
\* by template.envName, and under ITEM when envName is empty.
C28_VariableNameDefault ==
    /\ [][(RunJobPod(LJName) /\ Has(listJobs, LJName))
          => (/\ shim'.var = ExpectedEnvName(TheListJob)
              /\ shim'.out = TheListJob.staticList[shim'.index + 1])]_vars
    /\ [][(RunCronJobPod(LCJName) /\ Has(listCronJobs, LCJName))
          => (/\ shim'.var = ExpectedEnvName(TheListCronJob)
              /\ shim'.out = TheListCronJob.staticList[shim'.index + 1])]_vars

\* a pod of a ListCronJob without envName exported its item as ITEM
C28_Witness ==
    /\ shim.ran
    /\ shim.kind = "ListCronJob"
    /\ shim.var = "ITEM"
    /\ shim.index = MaxItems - 1
    /\ Has(listCronJobs, LCJName)
    /\ TheListCronJob.envName = ""
    /\ shim.out = TheListCronJob.staticList[MaxItems]

\* ===================================================================
\* Progress of the ListJob reconciler (specification SpecLate)
\* ===================================================================
\* the ListJob is there, not deleting, and its ledger has been published
LedgerPublished ==
    /\ Has(listJobs, LJName)
    /\ ~TheListJob.deleting
    /\ Has(configMaps, TheListJob.listSourceRef)

Materialized == Has(jobs, LJName) /\ Has(configMaps, ListName(LJName))

\* C29: when the work queue keeps retrying, a ListJob that is not deleting and
\* names a ledger that was missing when it was applied gets its ConfigMap and
\* its Job once the ListSource reconciler has published the ledger, with no
\* change to the ListJob.
C29_LateLedger == LedgerPublished ~> Materialized

\* the Job was created from a ledger that did not exist when the ListJob was
\* applied
C29_Witness ==
    /\ last.ctrl = "ListJob"
    /\ last.ops = <<Op("get-ledger", "ok"), Op("create-cm", "ok"),
                    Op("create-job", "ok")>>
    /\ Materialized
    /\ Has(listJobs, LJName)
    /\ Len(TheListJob.staticList) = 0
    /\ Obj(listSources, SourceName).itemCount = MaxItems
    /\ Obj(jobs, LJName).completions = MaxItems

\* ===================================================================
\* Agreement of the Job and the rendered list (specification Spec)
\* ===================================================================
\* the items of items.txt as the init container addresses them: the fields
\* between the commas
ItemsTxt(cm) == Split(cm.value, Comma)

\* C30 (as claimed): in every reachable state in which the Job <name> and the
\* ConfigMap <name>-list both exist, the completions of the Job equal the
\* number of items in items.txt, also when the two were created in different
\* passes.
C30_CompletionsMatchRenderedList ==
    (Has(jobs, LJName) /\ Has(configMaps, ListName(LJName)))
        => Obj(jobs, LJName).completions
             = Len(ItemsTxt(Obj(configMaps, ListName(LJName))))

\* ===================================================================
\* Objects with a deletion timestamp (specification SpecDeleting)
\* ===================================================================
\* the pass issued a create or an update of a ConfigMap, a Job or a CronJob
Materializes(l) ==
    \E c \in {"create-cm", "update-cm", "create-job", "create-cronjob",
              "update-cronjob"} : Issued(l, c)

\* C31: a pass over a ListJob or a ListCronJob that has a deletion timestamp,
\* with the finalizer or without it, issues no create and no update of a
\* ConfigMap, a Job or a CronJob, and no object of these kinds is added or
\* changed by it.
C31_NoMaterializationWhileDeleting ==
    /\ [][(LJStep /\ TheListJob.deleting)
          => (/\ ~Materializes(last')
              /\ configMaps' \subseteq configMaps
              /\ jobs' \subseteq jobs)]_vars
    /\ [][(LCJStep /\ TheListCronJob.deleting)
          => (/\ ~Materializes(last')
              /\ configMaps' \subseteq configMaps
              /\ cronJobs' \subseteq cronJobs)]_vars

\* a pass ran over a ListJob that has a deletion timestamp, has lost the
\* finalizer and is held by another finalizer: it did nothing
C31_Witness ==
    /\ Has(listJobs, LJName)
    /\ TheListJob.deleting
    /\ ~TheListJob.finalizer
    /\ last.ctrl = "ListJob"
    /\ last.ops = <<>>
    /\ ~last.err
    /\ ~Has(jobs, LJName)
    /\ ~Has(configMaps, ListName(LJName))

\* ===================================================================
\* Later passes over a materialized ListJob (specification SpecFrozen)
\* ===================================================================
\* C32: once the Job of a ListJob exists, a pass over the ListJob, not
\* deleting and not expired, leaves the Job and the ConfigMap <name>-list as
\* they are, also after the list, the parallelism or the template of the
\* ListJob, or the ledger it names, has changed.
C32_CreatedObjectsAreFrozen ==
    [][(LJStep /\ LJActive /\ Has(jobs, LJName))
       => (/\ jobs' = jobs
           /\ ConfigMapsNamed(configMaps', ListName(LJName))
                = ConfigMapsNamed(configMaps, ListName(LJName)))]_vars

\* a pass ran over a ListJob whose list, parallelism and envName differ from
\* those its Job was created from: both creates found the objects existing
C32_Witness ==
    /\ last.ctrl = "ListJob"
    /\ Outcome(last, "create-cm", "AlreadyExists")
    /\ Outcome(last, "create-job", "AlreadyExists")
    /\ Has(listJobs, LJName) /\ Has(jobs, LJName)
    /\ Len(TheListJob.staticList) > 0
    /\ Obj(jobs, LJName).completions # Len(TheListJob.staticList)
    /\ Obj(jobs, LJName).parallelism # TheListJob.parallelism
    /\ Obj(jobs, LJName).envName # EnvNameOf(TheListJob.envName)

\* the object o of a store carries the finalizer and, after the step, is
\* stored without it or is gone
LosesFinalizer(before, after, n) ==
    /\ Has(before, n) /\ Obj(before, n).finalizer
    /\ ~Has(after, n) \/ ~Obj(after, n).finalizer

\* the object of the most recent pass, if that pass returned no error and the
\* object is stored without a deletion timestamp
PassedObjects ==
    {o \in listJobs \cup listCronJobs :
        /\ o.name = last.name
        /\ last.ctrl = (IF o \in listJobs THEN "ListJob" ELSE "ListCronJob")
        /\ ~last.err
        /\ ~o.deleting}

\* C33 (as claimed): every stored ListJob without a deletion timestamp that
\* has completed its first pass carries the finalizer.
C33_FinalizerAfterFirstPass ==
    \A lj \in listJobs : (lj.firstPass # "none" /\ ~lj.deleting) => lj.finalizer

\* C33 (amended): a ListJob or ListCronJob loses the finalizer only in a pass
\* over it that observes a deletion timestamp; an object without a deletion
\* timestamp carries the finalizer after every pass over it that returned no
\* error, and keeps it for as long as it has no deletion timestamp.
C33_FinalizerRemovedOnlyWhileDeleting ==
    /\ [][/\ LosesFinalizer(listJobs, listJobs', LJName)
             => (LJStep /\ TheListJob.deleting)
          /\ LosesFinalizer(listCronJobs, listCronJobs', LCJName)
             => (LCJStep /\ TheListCronJob.deleting)]_vars
    /\ [](\A o \in PassedObjects : o.finalizer)

\* the first pass over a ListCronJob added the finalizer, later passes have
\* created its objects, and the finalizer is still there
C33_Witness ==
    /\ Has(listCronJobs, LCJName)
    /\ ~TheListCronJob.deleting
    /\ TheListCronJob.finalizer
    /\ last.ctrl = "ListCronJob"
    /\ Outcome(last, "update-cronjob", "ok")
    /\ Has(cronJobs, LCJName)

\* C34: under fairness a ListJob with a deletion timestamp is eventually
\* removed from the store; a cleanup pass whose Update fails returns an error
\* and leaves the stored ListJob, finalizer included, as it was.
C34_DeletionTerminates ==
    /\ (Has(listJobs, LJName) /\ TheListJob.deleting) ~> ~Has(listJobs, LJName)
    /\ [][(Terminating /\ Outcome(last', "remove-finalizer", "error"))
          => (last'.err /\ listJobs' = listJobs /\ TheListJob.finalizer)]_vars

\* a cleanup pass has removed the ListJob although its delete of the Job
\* failed: the Job is still stored
C34_Witness ==
    /\ ~Has(listJobs, LJName)
    /\ last.ctrl = "ListJob"
    /\ Outcome(last, "remove-finalizer", "ok")
    /\ Outcome(last, "delete-job", "error")
    /\ Has(jobs, LJName)

Occurrences(requests, r) == Cardinality({i \in 1..Len(requests) : requests[i] = r})

\* C36: for a changed ConfigMap, findObjectsForConfigMap returns exactly one
\* request for each ListCronJob of the ConfigMap's namespace whose
\* listSourceRef is the ConfigMap's name, no request for any other
\* ListCronJob, and no request at all when the List call failed.
C36_WatchMappingExact ==
    last.ctrl = "ConfigMapWatch" =>
        /\ \A o \in listCronJobs :
             Occurrences(last.requests, Request(o)) =
                 (IF /\ Outcome(last, "list", "ok")
                     /\ o.namespace = last.namespace
                     /\ o.listSourceRef = last.name
                  THEN 1 ELSE 0)
        /\ \A i \in 1..Len(last.requests) :
             \E o \in listCronJobs : last.requests[i] = Request(o)

\* the mapping returned a request for a ListCronJob of the ConfigMap's
\* namespace while a ListCronJob of another namespace names the same ledger
\* and another one of the same namespace names a different ledger
C36_Witness ==
    /\ last.ctrl = "ConfigMapWatch"
    /\ Len(last.requests) = 1
    /\ \E o \in listCronJobs :
         o.namespace # last.namespace /\ o.listSourceRef = last.name
    /\ \E o \in listCronJobs :
         o.namespace = last.namespace /\ o.listSourceRef \notin {last.name, NoRef}

\* the ledger a ListCronJob names is stored and its key items is empty
EmptyLedger(lcj) ==
    /\ lcj.listSourceRef # NoRef
    /\ Has(configMaps, lcj.listSourceRef)
    /\ DataGet(Obj(configMaps, lcj.listSourceRef), "items") = <<>>

\* C37: a pass over an active ListCronJob with an empty staticList whose
\* ledger exists with an empty value of items returns an error, issues no
\* create and no update, and leaves the ConfigMaps and the CronJobs as stored.
C37_EmptyLedgerForSchedule ==
    [][(/\ LCJStep
        /\ ~TheListCronJob.deleting
        /\ TheListCronJob.finalizer
        /\ TheListCronJob.staticList = <<>>
        /\ EmptyLedger(TheListCronJob))
       => (/\ last'.err
           /\ ~Materializes(last')
           /\ configMaps' = configMaps
           /\ cronJobs' = cronJobs)]_vars

\* a pass has found the ledger empty while the CronJob and the ConfigMap of an
\* earlier pass are stored
C37_Witness ==
    /\ last.ctrl = "ListCronJob"
    /\ Outcome(last, "no-items", "error")
    /\ Has(listCronJobs, LCJName)
    /\ EmptyLedger(TheListCronJob)
    /\ Has(cronJobs, LCJName)
    /\ Has(configMaps, ListName(LCJName))

\* the last pass created the ConfigMap and failed to create the Job
PartialPass ==
    /\ last.ctrl = "ListJob"
    /\ Outcome(last, "create-cm", "ok")
    /\ Outcome(last, "create-job", "error")
    /\ Has(listJobs, LJName)

\* C38: in the reconciler without finalizer, after a pass that created the
\* ConfigMap and failed to create the Job, the Job eventually exists; and a
\* pass that finds the ConfigMap already existing goes on to the create of
\* the Job.
C38_RecoveryAfterPartialPass ==
    /\ PartialPass ~> Has(jobs, LJName)
    /\ [][(/\ last'.ctrl = "ListJob"
           /\ ReconcilePlainListJob(LJName)
           /\ Outcome(last', "create-cm", "AlreadyExists"))
          => Issued(last', "create-job")]_vars

====
